---- MODULE Spec2Model ----
(***************************************************************************)
(* Verification model of fintran: the pipeline orchestrator                *)
(* (fintran/core/pipeline.py), the IR schema check (fintran/core/schema.py)*)
(* and the validation framework (fintran/validation/*.py).                 *)
(*                                                                         *)
(* Python values are modelled as follows.  An optional value is a sequence *)
(* of length 0 (None) or 1.  An exception object is a record               *)
(* [cls, ctx, cause, by]: its class, its context dictionary, the exception *)
(* it was raised `from` (at most one level is kept) and the component that *)
(* constructed it.  A DataFrame object is a record [id, isdf, schema,       *)
(* validation_metadata]: the object identity that id() returns, whether    *)
(* the object is a DataFrame at all, its schema as a set of                *)
(* <<column, dtype>> pairs, and its _validation_metadata attribute (absent,*)
(* or a dictionary given as a set of <<key, list of reports>> pairs).      *)
(***************************************************************************)
EXTENDS Integers, Sequences, FiniteSets, TLC

(***************************************************************************)
(* Bounds of the model.                                                    *)
(***************************************************************************)
MaxTransforms == 2

None == << >>

Some(x) == << x >>

(***************************************************************************)
(* fintran/core/exceptions.py: the exception hierarchy.  Errors raised by  *)
(* the collaborators are subclasses of Exception.                          *)
(***************************************************************************)
Parent(cls) ==
    CASE cls = "FintranError"    -> "Exception"
      [] cls = "ValidationError" -> "FintranError"
      [] cls = "ReaderError"     -> "FintranError"
      [] cls = "WriterError"     -> "FintranError"
      [] cls = "TransformError"  -> "FintranError"
      [] cls = "PipelineError"   -> "FintranError"
      [] cls = "ValidatorError"  -> "FintranError"
      [] cls = "ConfigurationSchemaError" -> "FintranError"
      [] cls = "TypeError"       -> "Exception"
      [] cls = "ValueError"      -> "Exception"
      [] cls = "AttributeError"  -> "Exception"
      [] OTHER                   -> "Exception"

\* isinstance(e, base), which is what an `except base:` clause tests.
IsInstance(cls, base) ==
    \/ cls = base
    \/ Parent(cls) = base
    \/ Parent(Parent(cls)) = base

\* The context dictionary of a PipelineError; a key that was not given is absent.
EmptyContext ==
    [step |-> None, input_path |-> None, output_path |-> None,
     transform_index |-> None, transform_type |-> None, transform_count |-> None]

\* PipelineError(message, step=..., ...) raised `from` cause by execute_pipeline.
PipelineError(ctx, cause) ==
    [cls |-> "PipelineError", ctx |-> ctx, cause |-> cause, by |-> "execute_pipeline"]

\* ValidationError(message, ...) as raised by validate_ir; the violation it
\* reports does not influence the orchestrator.
ValidationError(reason) ==
    [cls |-> "ValidationError", ctx |-> EmptyContext, cause |-> None, by |-> "validate_ir"]

\* What remains of an exception when it becomes the __cause__ of a wrapper.
AsCause(e) == Some([cls |-> e.cls, ctx |-> e.ctx, by |-> e.by])

(***************************************************************************)
(* fintran/core/schema.py                                                  *)
(***************************************************************************)
IR_SCHEMA ==
    { <<"date", "Date">>, <<"account", "Utf8">>, <<"amount", "Decimal">>,
      <<"currency", "Utf8">>, <<"description", "Utf8">>, <<"reference", "Utf8">> }

REQUIRED_FIELDS == {"date", "account", "amount", "currency"}

OPTIONAL_FIELDS == {"description", "reference"}

Columns(schema) == { p[1] : p \in schema }

ExpectedType(field) == (CHOOSE p \in IR_SCHEMA : p[1] = field)[2]

\* The dtype check of one present field (the body of the loop over df_columns).
FieldTypeOk(p) ==
    IF ExpectedType(p[1]) = "Decimal"
    THEN p[2] = "Decimal"
    ELSE \/ (p[2] = "Null" /\ p[1] \in OPTIONAL_FIELDS)
         \/ p[2] = ExpectedType(p[1])

\* A validate_ir that hands back a copy (df.clone()) instead of its argument.
ValidatedFrameCloned(df) == [df EXCEPT !.id = df.id + 100]

\* What validate_ir returns for a DataFrame that passes: the same reference.
ValidatedFrame(df) == df

\* validate_ir(df): [raised |-> optional exception, value |-> optional frame].
validate_ir(df) ==
    IF ~df.isdf
    THEN \* df.columns on an object that is not a DataFrame
         [raised |-> Some([cls |-> "AttributeError", ctx |-> EmptyContext,
                           cause |-> None, by |-> "validate_ir"]),
          value |-> None]
    ELSE IF REQUIRED_FIELDS \ Columns(df.schema) # {}
    THEN [raised |-> Some(ValidationError("missing_fields")), value |-> None]
    ELSE IF Columns(df.schema) \ Columns(IR_SCHEMA) # {}
    THEN [raised |-> Some(ValidationError("unexpected_fields")), value |-> None]
    ELSE IF \E p \in df.schema : ~FieldTypeOk(p)
    THEN [raised |-> Some(ValidationError("incorrect_type")), value |-> None]
    ELSE [raised |-> None, value |-> Some(ValidatedFrame(df))]

(***************************************************************************)
(* The collaborators (Reader, Transform, Writer protocols): what they may  *)
(* return or raise is an input of the model.                               *)
(***************************************************************************)
RequiredOnly ==
    { <<"date", "Date">>, <<"account", "Utf8">>, <<"amount", "Decimal">>,
      <<"currency", "Utf8">> }

\* Schemas a collaborator may hand back: conforming and violating ones.
Schemas ==
    { IR_SCHEMA,
      RequiredOnly,
      RequiredOnly \cup { <<"description", "Null">> },
      RequiredOnly \ { <<"currency", "Utf8">> },
      RequiredOnly \cup { <<"extra", "Utf8">> },
      (RequiredOnly \ { <<"amount", "Decimal">> }) \cup { <<"amount", "Float64">> },
      (RequiredOnly \ { <<"account", "Utf8">> }) \cup { <<"account", "Null">> } }

\* A new object with identity id: a DataFrame of some schema, or another object.
NewObjects(id) ==
    { [id |-> id, isdf |-> TRUE, schema |-> s, validation_metadata |-> None] :
        s \in Schemas }
      \cup { [id |-> id, isdf |-> FALSE, schema |-> {}, validation_metadata |-> None] }

\* An exception raised by collaborator `by`.
Raised(cls, step, by) ==
    [cls |-> cls, ctx |-> [EmptyContext EXCEPT !.step = step], cause |-> None, by |-> by]

\* The errors a collaborator may raise: every fintran category, a fintran
\* error of another family, a builtin error, and a PipelineError of its own
\* (without a step, or tagged with a step of its choosing).  All are
\* subclasses of Exception; KeyboardInterrupt and SystemExit, which no
\* `except Exception` clause catches, are not errors and are left out.
RaisedBy(by) ==
    { Raised(cls, None, by) :
        cls \in {"ReaderError", "WriterError", "TransformError", "ValidationError",
                 "ValidatorError", "ValueError", "PipelineError"} }
      \cup { Raised("PipelineError", Some("custom"), by) }

InputPaths == {"in.csv"}

OutputPaths == {"out.parquet"}

TransformTypes == {"TypeA", "TypeB"}

RECURSIVE SeqsUpTo(_, _)
SeqsUpTo(S, n) ==
    IF n = 0 THEN { << >> }
    ELSE LET shorter == SeqsUpTo(S, n - 1)
         IN  shorter \cup { Append(s, x) : s \in { t \in shorter : Len(t) = n - 1 }, x \in S }

(***************************************************************************)
(* fintran/core/pipeline.py: the except clauses of execute_pipeline.  Each *)
(* handler maps the exception raised inside a try block to the exception   *)
(* that leaves it.                                                         *)
(***************************************************************************)
\* f"transform_{i}"
StepTag(k) == "transform_" \o ToString(k)

\* Step 1, lines 113-122.
ReadHandler(e, path) ==
    IF IsInstance(e.cls, "ReaderError") THEN e
    ELSE IF IsInstance(e.cls, "Exception")
    THEN PipelineError([EmptyContext EXCEPT !.step = Some("read"),
                                            !.input_path = Some(path)], AsCause(e))
    ELSE e

\* Step 2, lines 125-132.
ValidateReaderHandler(e, path) ==
    IF IsInstance(e.cls, "ValidationError")
    THEN PipelineError([EmptyContext EXCEPT !.step = Some("validate_reader_output"),
                                            !.input_path = Some(path)], AsCause(e))
    ELSE e

\* An identity check with the wrong comparison: it misses the equal ids.
SameInstanceLess(original, result) == result.id < original.id

\* Step 3, line 144: id(ir) == original_id.
SameInstance(original, result) == result.id = original.id

\* Step 3, lines 145-151: the immutability violation.
ImmutabilityError(k, type) ==
    PipelineError([EmptyContext EXCEPT !.step = Some(StepTag(k)),
                                       !.transform_index = Some(k),
                                       !.transform_type = Some(type)], None)

\* A step 3 that re-raises every fintran error as it is.
TransformHandlerPassesFintran(e, k, type) ==
    IF IsInstance(e.cls, "FintranError") THEN e
    ELSE IF IsInstance(e.cls, "Exception")
    THEN PipelineError([EmptyContext EXCEPT !.step = Some(StepTag(k)),
                                            !.transform_index = Some(k),
                                            !.transform_type = Some(type)], AsCause(e))
    ELSE e

\* Step 3, lines 153-163.
TransformHandler(e, k, type) ==
    IF IsInstance(e.cls, "TransformError") THEN e
    ELSE IF IsInstance(e.cls, "PipelineError") THEN e
    ELSE IF IsInstance(e.cls, "Exception")
    THEN PipelineError([EmptyContext EXCEPT !.step = Some(StepTag(k)),
                                            !.transform_index = Some(k),
                                            !.transform_type = Some(type)], AsCause(e))
    ELSE e

\* A step 4 without its except clause: the ValidationError propagates.
ValidateFinalHandlerMissing(e, count) == e

\* Step 4, lines 166-173.
ValidateFinalHandler(e, count) ==
    IF IsInstance(e.cls, "ValidationError")
    THEN PipelineError([EmptyContext EXCEPT !.step = Some("validate_final_ir"),
                                            !.transform_count = Some(count)], AsCause(e))
    ELSE e

\* Step 5, lines 176-185.
WriteHandler(e, path) ==
    IF IsInstance(e.cls, "WriterError") THEN e
    ELSE IF IsInstance(e.cls, "Exception")
    THEN PipelineError([EmptyContext EXCEPT !.step = Some("write"),
                                            !.output_path = Some(path)], AsCause(e))
    ELSE e

\* An outer try without `except FintranError: raise`: category errors get wrapped.
OuterHandlerWrapsFintran(e) ==
    IF IsInstance(e.cls, "PipelineError") THEN e
    ELSE IF IsInstance(e.cls, "Exception")
    THEN PipelineError([EmptyContext EXCEPT !.step = Some("unknown")], AsCause(e))
    ELSE e

\* The outer try, lines 187-198.
OuterHandler(e) ==
    IF IsInstance(e.cls, "PipelineError") THEN e
    ELSE IF IsInstance(e.cls, "FintranError") THEN e
    ELSE IF IsInstance(e.cls, "Exception")
    THEN PipelineError([EmptyContext EXCEPT !.step = Some("unknown")], AsCause(e))
    ELSE e

\* A loop that goes to the writer after the last transform, skipping step 4.
AfterTransformSkipsValidation(k, n) ==
    IF k + 1 < n THEN [pc |-> "transform", i |-> k + 1]
    ELSE [pc |-> "write", i |-> k + 1]

\* The for loop of step 3: where execution continues after transform k of n.
AfterTransform(k, n) ==
    IF k + 1 < n THEN [pc |-> "transform", i |-> k + 1]
    ELSE [pc |-> "validate_final_ir", i |-> k + 1]

(***************************************************************************)
(* State.  Each specification below runs one component and leaves the      *)
(* variables of the others at their initial values.                        *)
(***************************************************************************)
VARIABLES
    \* one execution of execute_pipeline
    pc,           \* position in execute_pipeline
    ir,           \* the local variable ir (optional frame)
    i,            \* the loop index over transforms
    transforms,   \* the transforms argument: the type name of each transform
    input_path,   \* the input_path argument
    output_path,  \* the output_path argument
    trace,        \* log of the steps taken so far, one entry per step
    delivered,    \* the exception that reached the caller (optional)
    nextId        \* identity of the next object a collaborator allocates

VARIABLES
    \* one call of ValidationPipeline.run or of create_report
    run_pc,       \* position in run
    mode,         \* self.mode
    validators,   \* self.validators: the name of each validator
    timestamp,    \* the local timestamp (optional)
    results,      \* the local list results
    invoked,      \* log of the validate calls made: validator index and Result
    report        \* the ValidationReport returned (optional)

VARIABLES
    \* the ValidationResult objects of the system
    result,       \* the ValidationResult last created (optional)
    origin        \* how it was created

VARIABLES
    \* one call of ValidatingTransform.transform
    vt_pc,          \* position in transform
    fail_on_error,  \* self.fail_on_error
    metadata_key,   \* self.metadata_key
    vt_df,          \* the argument df
    vt_runs,        \* log of the frames handed to self.pipeline.run
    vt_reports,     \* log of the reports self.pipeline.run returned
    vt_out,         \* the frame returned (optional)
    vt_raised       \* the exception raised (optional)

VARIABLES
    \* one call of parse_config
    pr_pc,          \* position in parse_config
    config,         \* the argument config
    pr_idx,         \* idx of the loop in progress
    pr_validators,  \* the local list validators
    pr_mode,        \* the local mode (optional)
    pr_log,         \* log of the entries checked and the constructors called
    pr_out,         \* the pipeline returned (optional)
    pr_raised       \* the exception raised (optional)

VARIABLES
    \* one serialisation round trip of a ValidationReport
    rt_pc,          \* position in the round trip
    rt_report,      \* the report
    rt_doc,         \* report.to_json() (optional)
    rt_restored     \* ValidationReport.from_json(doc) (optional)

VARIABLES
    \* a built-in validator called twice on one dataset
    ck_pc,          \* how many calls of validate have been made
    ck_validator,   \* the validator object
    ck_df,          \* the dataset
    ck_first,       \* the outcome of the first call (optional)
    ck_second       \* the outcome of the second call (optional)

VARIABLES
    \* one call of the convert command
    cv_pc,          \* position in convert
    cv_args,        \* the arguments and the files they name (optional)
    cv_cfg,         \* the local cfg after merge_config (optional)
    cv_used,        \* reader_type, writer_type and the transforms instantiated (optional)
    cv_ir,          \* the local ir of the dry run (optional)
    cv_applied,     \* dry run: the transforms applied so far
    cv_caught,      \* the exception an except clause of convert caught (optional)
    cv_exit         \* the exit code returned (optional)

VARIABLES
    \* one call of the batch command
    bt_pc,          \* position in batch
    bt_files,       \* the local list files
    bt_k,           \* how many iterations of the loop are over
    bt_attempts,    \* log of the calls of convert: the file and the outcome
    bt_results,     \* the local dictionary results (optional)
    bt_exit         \* the exit code returned (optional)

pipelineVars == << pc, ir, i, transforms, input_path, output_path, trace,
                   delivered, nextId >>

runVars == << run_pc, mode, validators, timestamp, results, invoked, report >>

resultVars == << result, origin >>

transformVars == << vt_pc, fail_on_error, metadata_key, vt_df, vt_runs, vt_reports,
                    vt_out, vt_raised >>

parseVars == << pr_pc, config, pr_idx, pr_validators, pr_mode, pr_log, pr_out,
                pr_raised >>

reportVars == << rt_pc, rt_report, rt_doc, rt_restored >>

checkVars == << ck_pc, ck_validator, ck_df, ck_first, ck_second >>

convertVars == << cv_pc, cv_args, cv_cfg, cv_used, cv_ir, cv_applied, cv_caught,
                  cv_exit >>

batchVars == << bt_pc, bt_files, bt_k, bt_attempts, bt_results, bt_exit >>

cliVars == << convertVars, batchVars >>

vars == << pipelineVars, runVars, resultVars, transformVars, parseVars, reportVars,
           checkVars, cliVars >>

\* What an action of one component leaves alone: the other components.
notPipeline == << runVars, resultVars, transformVars, parseVars, reportVars, checkVars, cliVars >>

notRun == << pipelineVars, resultVars, transformVars, parseVars, reportVars, checkVars, cliVars >>

notResult == << pipelineVars, runVars, transformVars, parseVars, reportVars, checkVars, cliVars >>

notParse == << pipelineVars, runVars, resultVars, transformVars, reportVars, checkVars, cliVars >>

notReport == << pipelineVars, runVars, resultVars, transformVars, parseVars, checkVars, cliVars >>

notCheck == << pipelineVars, runVars, resultVars, transformVars, parseVars, reportVars, cliVars >>

notConvert == << runVars, resultVars, transformVars, parseVars, reportVars, checkVars,
                 batchVars >>

notBatch == << pipelineVars, runVars, resultVars, transformVars, parseVars, reportVars,
               checkVars, convertVars >>

\* No execution of execute_pipeline is in progress.
IdlePipeline ==
    /\ pc = "idle"
    /\ ir = None
    /\ i = 0
    /\ transforms = << >>
    /\ input_path = "in.csv"
    /\ output_path = "out.parquet"
    /\ trace = << >>
    /\ delivered = None
    /\ nextId = 1

\* No call of ValidationPipeline.run is in progress.
IdleRun ==
    /\ run_pc = "idle"
    /\ mode = "continue"
    /\ validators = << >>
    /\ timestamp = None
    /\ results = << >>
    /\ invoked = << >>
    /\ report = None

\* No ValidationResult has been created.
IdleResult ==
    /\ result = None
    /\ origin = "none"

\* No call of ValidatingTransform.transform is in progress.
IdleTransform ==
    /\ vt_pc = "idle"
    /\ fail_on_error = FALSE
    /\ metadata_key = "validation_report"
    /\ vt_df = [id |-> 0, isdf |-> TRUE, schema |-> {}, validation_metadata |-> None]
    /\ vt_runs = << >>
    /\ vt_reports = << >>
    /\ vt_out = None
    /\ vt_raised = None

\* No call of parse_config is in progress.
IdleParse ==
    /\ pr_pc = "idle"
    /\ config = [isdict |-> FALSE, keys |-> {},
                 validators |-> [islist |-> FALSE, items |-> << >>], mode |-> ""]
    /\ pr_idx = 0
    /\ pr_validators = << >>
    /\ pr_mode = None
    /\ pr_log = << >>
    /\ pr_out = None
    /\ pr_raised = None

\* No report is being serialised.
IdleReport ==
    /\ rt_pc = "idle"
    /\ rt_report = None
    /\ rt_doc = None
    /\ rt_restored = None

\* No built-in validator is being called.
IdleCheck ==
    /\ ck_pc = "idle"
    /\ ck_validator = None
    /\ ck_df = None
    /\ ck_first = None
    /\ ck_second = None

\* convert has not been called.
IdleConvert ==
    /\ cv_pc = "idle"
    /\ cv_args = None
    /\ cv_cfg = None
    /\ cv_used = None
    /\ cv_ir = None
    /\ cv_applied = << >>
    /\ cv_caught = None
    /\ cv_exit = None

\* batch has not been called.
IdleBatch ==
    /\ bt_pc = "idle"
    /\ bt_files = << >>
    /\ bt_k = 0
    /\ bt_attempts = << >>
    /\ bt_results = None
    /\ bt_exit = None

\* The components of the last groups are idle.
IdleRest == IdleParse /\ IdleReport /\ IdleCheck /\ IdleConvert /\ IdleBatch

\* One entry of the step log: the step, the loop index, the frame and the
\* location handed to the collaborator, what it returned, what was raised
\* inside the step, and the exception that left the step.
Entry(step, index, arg, location, returned, raised, failed) ==
    [step |-> step, index |-> index, arg |-> arg, location |-> location,
     returned |-> returned, raised |-> raised, failed |-> failed]

\* An exception leaves execute_pipeline: the outer handler decides what the
\* caller receives, and the execution is over.
Fail(entry) ==
    /\ trace' = Append(trace, entry)
    /\ delivered' = Some(OuterHandler(entry.failed[1]))
    /\ pc' = "raised"

InitPipeline ==
    /\ pc = "read"
    /\ ir = None
    /\ i = 0
    /\ transforms \in SeqsUpTo(TransformTypes, MaxTransforms)
    /\ input_path \in InputPaths
    /\ output_path \in OutputPaths
    /\ trace = << >>
    /\ delivered = None
    /\ nextId = 1

\* Step 1: ir = reader.read(input_path, **config)
Read ==
    /\ pc = "read"
    /\ \/ \E df \in NewObjects(nextId) :
            /\ ir' = Some(df)
            /\ nextId' = nextId + 1
            /\ trace' = Append(trace, Entry("read", None, None, Some(input_path),
                                            Some(df), None, None))
            /\ pc' = "validate_reader_output"
            /\ UNCHANGED delivered
       \/ \E e \in RaisedBy("reader") :
            /\ Fail(Entry("read", None, None, Some(input_path), None, Some(e),
                          Some(ReadHandler(e, input_path))))
            /\ UNCHANGED << ir, nextId >>
    /\ UNCHANGED << i, transforms, input_path, output_path >>
    /\ UNCHANGED notPipeline

\* Step 2: ir = validate_ir(ir)
ValidateReaderOutput ==
    /\ pc = "validate_reader_output"
    /\ LET r == validate_ir(ir[1]) IN
         IF r.raised # None
         THEN /\ Fail(Entry("validate_reader_output", None, ir, None, None, r.raised,
                            Some(ValidateReaderHandler(r.raised[1], input_path))))
              /\ UNCHANGED ir
         ELSE /\ ir' = r.value
              /\ trace' = Append(trace, Entry("validate_reader_output", None, ir, None,
                                              r.value, None, None))
              /\ pc' = IF Len(transforms) > 0 THEN "transform" ELSE "validate_final_ir"
              /\ UNCHANGED delivered
    /\ UNCHANGED << i, transforms, input_path, output_path, nextId >>
    /\ UNCHANGED notPipeline

\* Step 3, one iteration: original_id = id(ir); ir = transform.transform(ir);
\* the identity check.  The transform returns a new object or the one it got.
ApplyTransform ==
    /\ pc = "transform"
    /\ i < Len(transforms)
    /\ transforms[i + 1] \in TransformTypes
    /\ LET type == transforms[i + 1] IN
       \/ \E df \in NewObjects(nextId) \cup { ir[1] } :
            /\ ir' = Some(df)
            /\ nextId' = IF df.id = nextId THEN nextId + 1 ELSE nextId
            /\ IF SameInstance(ir[1], df)
               THEN /\ Fail(Entry("transform", Some(i), ir, None, Some(df), None,
                                  Some(TransformHandler(ImmutabilityError(i, type),
                                                        i, type))))
                    /\ UNCHANGED i
               ELSE /\ trace' = Append(trace, Entry("transform", Some(i), ir, None,
                                                    Some(df), None, None))
                    /\ pc' = AfterTransform(i, Len(transforms)).pc
                    /\ i' = AfterTransform(i, Len(transforms)).i
                    /\ UNCHANGED delivered
       \/ \E e \in RaisedBy("transform") :
            /\ Fail(Entry("transform", Some(i), ir, None, None, Some(e),
                          Some(TransformHandler(e, i, type))))
            /\ UNCHANGED << ir, i, nextId >>
    /\ UNCHANGED << transforms, input_path, output_path >>
    /\ UNCHANGED notPipeline

\* Step 4: ir = validate_ir(ir)
ValidateFinalIr ==
    /\ pc = "validate_final_ir"
    /\ LET r == validate_ir(ir[1]) IN
         IF r.raised # None
         THEN /\ Fail(Entry("validate_final_ir", None, ir, None, None, r.raised,
                            Some(ValidateFinalHandler(r.raised[1], Len(transforms)))))
              /\ UNCHANGED ir
         ELSE /\ ir' = r.value
              /\ trace' = Append(trace, Entry("validate_final_ir", None, ir, None,
                                              r.value, None, None))
              /\ pc' = "write"
              /\ UNCHANGED delivered
    /\ UNCHANGED << i, transforms, input_path, output_path, nextId >>
    /\ UNCHANGED notPipeline

\* Step 5: writer.write(ir, output_path, **config)
Write ==
    /\ pc = "write"
    /\ \/ /\ trace' = Append(trace, Entry("write", None, ir, Some(output_path),
                                          None, None, None))
          /\ pc' = "returned"
          /\ UNCHANGED delivered
       \/ \E e \in RaisedBy("writer") :
            Fail(Entry("write", None, ir, Some(output_path), None, Some(e),
                       Some(WriteHandler(e, output_path))))
    /\ UNCHANGED << ir, i, transforms, input_path, output_path, nextId >>
    /\ UNCHANGED notPipeline

Init == InitPipeline /\ IdleRun /\ IdleResult /\ IdleTransform /\ IdleRest

Next ==
    \/ Read
    \/ ValidateReaderOutput
    \/ ApplyTransform
    \/ ValidateFinalIr
    \/ Write

Spec == Init /\ [][Next]_vars

(***************************************************************************)
(* Properties of execute_pipeline.                                         *)
(***************************************************************************)
LastEntry == trace[Len(trace)]

\* The step expected at position j of the log of a run over n transforms.
ExpectedStep(j, n) ==
    IF j = 1 THEN [step |-> "read", index |-> None]
    ELSE IF j = 2 THEN [step |-> "validate_reader_output", index |-> None]
    ELSE IF j <= n + 2 THEN [step |-> "transform", index |-> Some(j - 3)]
    ELSE IF j = n + 3 THEN [step |-> "validate_final_ir", index |-> None]
    ELSE [step |-> "write", index |-> None]

\* The tag of transform step k, written out.
TransformTag(k) ==
    CASE k = 0 -> "transform_0"
      [] k = 1 -> "transform_1"
      [] k = 2 -> "transform_2"
      [] k = 3 -> "transform_3"
      [] OTHER -> "transform_n"

\* The error category a step lets through.
OwnCategory(step) ==
    CASE step = "read" -> "ReaderError"
      [] step = "transform" -> "TransformError"
      [] step = "write" -> "WriterError"
      [] OTHER -> "NoCategory"

DeliveredFromStep(tag) ==
    /\ delivered # None
    /\ delivered[1].cls = "PipelineError"
    /\ delivered[1].ctx.step = Some(tag)

\* C1: an execution is one forward pass: read, validate, each transform once
\* in list order, validate, write; only the last step taken can have failed,
\* a failed step ends the execution, and so the writer is called only after
\* every earlier step succeeded.
C1_SingleForwardPass ==
    /\ Len(trace) <= Len(transforms) + 4
    /\ \A j \in 1..Len(trace) :
          /\ trace[j].step = ExpectedStep(j, Len(transforms)).step
          /\ trace[j].index = ExpectedStep(j, Len(transforms)).index
          /\ (j < Len(trace) => trace[j].failed = None)
    /\ (Len(trace) > 0 /\ LastEntry.failed # None) => pc = "raised"
    /\ pc = "returned" => Len(trace) = Len(transforms) + 4

C1_Witness ==
    /\ pc = "returned"
    /\ Len(transforms) = 2
    /\ LastEntry.step = "write"

\* C2: transform 0 gets the frame the reader returned, transform k > 0 the
\* frame transform k-1 returned, and the writer the frame of the last
\* transform (the reader's when there is none) with the output location.
C2_DataFlow ==
    \A j \in 1..Len(trace) :
       LET prev == IF \E m \in 1..(j - 1) : trace[m].step = "transform"
                   THEN trace[CHOOSE m \in 1..(j - 1) :
                                 /\ trace[m].step = "transform"
                                 /\ \A q \in (m + 1)..(j - 1) : trace[q].step # "transform"]
                   ELSE trace[1]
       IN  /\ trace[j].step = "transform" =>
                /\ trace[j].arg = prev.returned
                /\ prev.step = IF trace[j].index = Some(0) THEN "read" ELSE "transform"
                /\ trace[j].index # Some(0) => prev.index = Some(trace[j].index[1] - 1)
           /\ trace[j].step = "write" =>
                /\ trace[j].arg = prev.returned
                /\ prev.step = IF Len(transforms) = 0 THEN "read" ELSE "transform"
                /\ Len(transforms) > 0 => prev.index = Some(Len(transforms) - 1)
                /\ trace[j].location = Some(output_path)

C2_Witness ==
    /\ Len(trace) = 6
    /\ trace[6].step = "write"
    /\ trace[6].arg = trace[4].returned
    /\ trace[4].arg = trace[3].returned
    /\ trace[3].arg = trace[1].returned

\* C3: when transform k returns the instance it was given, the caller gets a
\* PipelineError with step "transform_k", transform_index k and the
\* transform's type name, and that transform call is the last step taken.
C3_ImmutabilityViolation ==
    \A j \in 1..Len(trace) :
       ( /\ trace[j].step = "transform"
         /\ trace[j].returned # None
         /\ trace[j].returned[1].id = trace[j].arg[1].id )
       => /\ j = Len(trace)
          /\ pc = "raised"
          /\ DeliveredFromStep(TransformTag(trace[j].index[1]))
          /\ delivered[1].ctx.transform_index = trace[j].index
          /\ delivered[1].ctx.transform_type = Some(transforms[trace[j].index[1] + 1])

C3_Witness ==
    /\ Len(trace) = 4
    /\ trace[4].step = "transform"
    /\ trace[4].returned = trace[4].arg
    /\ pc = "raised"
    /\ Len(transforms) = 2

\* C4: an error raised inside the read step, transform step k or the write
\* step that is not of the step's own category reaches the caller as a
\* PipelineError tagged with that step: "read" with the input location,
\* "transform_k" with transform_index k and the type name, or "write" with
\* the output location.
C4_ForeignErrorsAreStepTagged ==
    \A j \in 1..Len(trace) :
       ( /\ trace[j].raised # None
         /\ trace[j].step \in {"read", "transform", "write"}
         /\ ~IsInstance(trace[j].raised[1].cls, OwnCategory(trace[j].step)) )
       => CASE trace[j].step = "read" ->
                 /\ DeliveredFromStep("read")
                 /\ delivered[1].ctx.input_path = Some(input_path)
            [] trace[j].step = "transform" ->
                 /\ DeliveredFromStep(TransformTag(trace[j].index[1]))
                 /\ delivered[1].ctx.transform_index = trace[j].index
                 /\ delivered[1].ctx.transform_type = Some(transforms[trace[j].index[1] + 1])
            [] trace[j].step = "write" ->
                 /\ DeliveredFromStep("write")
                 /\ delivered[1].ctx.output_path = Some(output_path)

C6_SchemaViolationsAreWrapped ==
    /\ delivered # None => delivered[1].cls # "ValidationError"
    /\ \A j \in 1..Len(trace) :
          ( /\ trace[j].step = "validate_reader_output"
            /\ ~validate_ir(trace[j].arg[1]).raised = None
            /\ validate_ir(trace[j].arg[1]).raised[1].cls = "ValidationError" )
          => /\ DeliveredFromStep("validate_reader_output")
             /\ delivered[1].ctx.input_path = Some(input_path)
             /\ \A m \in 1..Len(trace) : trace[m].step \notin {"transform", "write"}
    /\ \A j \in 1..Len(trace) :
          ( /\ trace[j].step = "validate_final_ir"
            /\ ~validate_ir(trace[j].arg[1]).raised = None
            /\ validate_ir(trace[j].arg[1]).raised[1].cls = "ValidationError" )
          => /\ DeliveredFromStep("validate_final_ir")
             /\ delivered[1].ctx.transform_count = Some(Len(transforms))
             /\ \A m \in 1..Len(trace) : trace[m].step # "write"

C6_Witness ==
    /\ Len(transforms) = 2
    /\ Len(trace) = 5
    /\ trace[5].step = "validate_final_ir"
    /\ trace[5].raised # None
    /\ DeliveredFromStep("validate_final_ir")

\* C7: an exception that leaves one of the five steps and is neither a
\* ReaderError, a TransformError, a WriterError nor a PipelineError that
\* carries a step reaches the caller as a PipelineError with step "unknown".
C7_UncategorizedIsUnknown ==
    ( /\ Len(trace) > 0
      /\ LastEntry.failed # None
      /\ ~IsInstance(LastEntry.failed[1].cls, "ReaderError")
      /\ ~IsInstance(LastEntry.failed[1].cls, "TransformError")
      /\ ~IsInstance(LastEntry.failed[1].cls, "WriterError")
      /\ ~( /\ IsInstance(LastEntry.failed[1].cls, "PipelineError")
            /\ LastEntry.failed[1].ctx.step # None ) )
    => DeliveredFromStep("unknown")

(***************************************************************************)
(* fintran/validation/result.py                                            *)
(***************************************************************************)
MaxMessages == 2

MaxValidators == 2

\* The dataclass constructor: it stores the fields it is given.
ValidationResult(valid, errors, warnings, validator_name, metadata) ==
    [is_valid |-> valid, errors |-> errors, warnings |-> warnings,
     validator_name |-> validator_name, metadata |-> metadata]

has_errors(r) == Len(r.errors) > 0

has_warnings(r) == Len(r.warnings) > 0

\* all_errors.extend(result.errors) over the results, in order.
RECURSIVE AllErrors(_)
AllErrors(rs) ==
    IF rs = << >> THEN << >> ELSE rs[1].errors \o AllErrors(Tail(rs))

\* all_warnings.extend(result.warnings) over the results, in order.
RECURSIVE AllWarnings(_)
AllWarnings(rs) ==
    IF rs = << >> THEN << >> ELSE rs[1].warnings \o AllWarnings(Tail(rs))

\* ValidationResult.combine
combine(rs) ==
    ValidationResult(Len(AllErrors(rs)) = 0, AllErrors(rs), AllWarnings(rs),
                     "combined", { <<"combined_count", Len(rs)>> })

(***************************************************************************)
(* fintran/validation/report.py                                            *)
(***************************************************************************)
\* The dataclass constructor of ValidationReport.
ValidationReport(rs, ts, total_validators, passed, failed, warnings_count) ==
    [results |-> rs, timestamp |-> ts, total_validators |-> total_validators,
     passed |-> passed, failed |-> failed, warnings_count |-> warnings_count]

\* ValidationReport.is_valid
is_valid(rep) == rep.failed = 0

\* sum(1 for r in results if r.is_valid)
RECURSIVE CountPassed(_)
CountPassed(rs) ==
    IF rs = << >> THEN 0
    ELSE (IF rs[1].is_valid THEN 1 ELSE 0) + CountPassed(Tail(rs))

\* sum(1 for r in results if not r.is_valid)
RECURSIVE CountFailed(_)
CountFailed(rs) ==
    IF rs = << >> THEN 0
    ELSE (IF ~rs[1].is_valid THEN 1 ELSE 0) + CountFailed(Tail(rs))

\* A warnings count that counts the results with warnings, not the warnings.
RECURSIVE CountWarningsPerResult(_)
CountWarningsPerResult(rs) ==
    IF rs = << >> THEN 0
    ELSE (IF has_warnings(rs[1]) THEN 1 ELSE 0) + CountWarningsPerResult(Tail(rs))

\* sum(len(r.warnings) for r in results)
RECURSIVE CountWarnings(_)
CountWarnings(rs) ==
    IF rs = << >> THEN 0
    ELSE Len(rs[1].warnings) + CountWarnings(Tail(rs))

\* create_report(results), called at time now
create_report(rs, now) ==
    ValidationReport(rs, now, Len(rs), CountPassed(rs), CountFailed(rs), CountWarnings(rs))

\* A datetime: the date, the time of day and the microsecond.
Clock ==
    { [date |-> "2024-01-15", time |-> "10:30:00", microsecond |-> 0],
      [date |-> "2024-01-15", time |-> "10:30:00", microsecond |-> 250000] }

\* datetime.isoformat(): the parts of the string, the fraction only when the
\* microsecond is not zero.
isoformat(ts) ==
    IF ts.microsecond = 0 THEN << ts.date, "T", ts.time >>
    ELSE << ts.date, "T", ts.time, ".", ts.microsecond >>

\* A parse that stops at the seconds.
fromisoformatSeconds(parts) ==
    [date |-> parts[1], time |-> parts[3], microsecond |-> 0]

\* datetime.fromisoformat(): the datetime the parts spell.
fromisoformat(parts) ==
    [date |-> parts[1], time |-> parts[3],
     microsecond |-> IF Len(parts) > 3 THEN parts[5] ELSE 0]

\* ValidationReport.to_json
to_json(rep) ==
    [timestamp |-> isoformat(rep.timestamp),
     summary |-> [total_validators |-> rep.total_validators, passed |-> rep.passed,
                  failed |-> rep.failed, warnings_count |-> rep.warnings_count,
                  is_valid |-> is_valid(rep)],
     results |-> [j \in 1..Len(rep.results) |->
                    [validator_name |-> rep.results[j].validator_name,
                     is_valid |-> rep.results[j].is_valid,
                     errors |-> rep.results[j].errors,
                     warnings |-> rep.results[j].warnings,
                     metadata |-> rep.results[j].metadata]]]

\* ValidationReport.from_json, for a document in the nested "summary" format.
from_json(data) ==
    ValidationReport(
        [j \in 1..Len(data.results) |->
            ValidationResult(data.results[j].is_valid, data.results[j].errors,
                             data.results[j].warnings, data.results[j].validator_name,
                             data.results[j].metadata)],
        fromisoformat(data.timestamp),
        data.summary.total_validators, data.summary.passed,
        data.summary.failed, data.summary.warnings_count)

(***************************************************************************)
(* Inputs of the validation framework.                                     *)
(***************************************************************************)
\* The message lists a Result may carry: 0..MaxMessages messages.
Messages(text) == SeqsUpTo({text}, MaxMessages)

Metadatas == { {}, { <<"violation_count", 1>> } }

\* The Results a validator named name may return.  The Validator protocol
\* does not constrain the fields, so every combination is possible.
ResultsOf(name) ==
    { ValidationResult(v, e, w, name, {}) :
        v \in BOOLEAN, e \in Messages("error"), w \in Messages("warning") }

\* The validators of a pipeline of n validators, named by position.
ValidatorNames(n) == [j \in 1..n |-> "validator_" \o ToString(j)]

\* The lists of at most n Results, the j-th one from the j-th validator.
RECURSIVE ResultLists(_)
ResultLists(n) ==
    IF n = 0 THEN { << >> }
    ELSE LET shorter == ResultLists(n - 1)
         IN  shorter \cup { Append(rs, r) : rs \in { t \in shorter : Len(t) = n - 1 },
                                            r \in ResultsOf(ValidatorNames(n)[n]) }

(***************************************************************************)
(* fintran/validation/pipeline.py: ValidationPipeline.run                  *)
(***************************************************************************)
\* A fail-fast test that forgets the mode.
ShouldBreakAnyMode(m, r) == has_errors(r)

\* Line 106: self.mode == ValidationMode.FAIL_FAST and result.has_errors()
ShouldBreak(m, r) == m = "fail_fast" /\ has_errors(r)

InitRun ==
    /\ run_pc = "start"
    /\ mode \in {"fail_fast", "continue"}
    /\ validators \in { ValidatorNames(n) : n \in 0..MaxValidators }
    /\ timestamp = None
    /\ results = << >>
    /\ invoked = << >>
    /\ report = None

\* Lines 86-98: results = [], timestamp = now(); the empty pipeline returns
\* a zero report at once.
RunStart ==
    /\ run_pc = "start"
    /\ \E now \in Clock :
         /\ timestamp' = Some(now)
         /\ IF Len(validators) = 0
            THEN /\ report' = Some(ValidationReport(<< >>, now, 0, 0, 0, 0))
                 /\ run_pc' = "done"
            ELSE /\ report' = report
                 /\ run_pc' = "loop"
    /\ results' = << >>
    /\ UNCHANGED << mode, validators, invoked >>
    /\ UNCHANGED notRun

\* Lines 101-107, one iteration: the next validator is called, its Result
\* appended, and the loop ends after the last validator or on a break.  A
\* validator may also raise, and run does not catch it.
RunValidator ==
    /\ run_pc = "loop"
    /\ LET j == Len(results) + 1 IN
       \/ \E r \in ResultsOf(validators[j]) :
            /\ results' = Append(results, r)
            /\ invoked' = Append(invoked, [index |-> j, result |-> Some(r)])
            /\ run_pc' = IF ShouldBreak(mode, r) \/ j = Len(validators)
                         THEN "aggregate" ELSE "loop"
       \/ /\ invoked' = Append(invoked, [index |-> j, result |-> None])
          /\ run_pc' = "raised"
          /\ UNCHANGED results
    /\ UNCHANGED << mode, validators, timestamp, report >>
    /\ UNCHANGED notRun

\* Lines 109-121: the counts and the report.
RunAggregate ==
    /\ run_pc = "aggregate"
    /\ report' = Some(ValidationReport(results, timestamp[1], Len(results),
                                       CountPassed(results), CountFailed(results),
                                       CountWarnings(results)))
    /\ run_pc' = "done"
    /\ UNCHANGED << mode, validators, timestamp, results, invoked >>
    /\ UNCHANGED notRun

\* create_report(results) on a list of Results supplied by the caller.
CreateReport ==
    /\ run_pc = "start"
    /\ \E rs \in ResultLists(MaxValidators), now \in Clock :
         /\ results' = rs
         /\ timestamp' = Some(now)
         /\ report' = Some(create_report(rs, now))
    /\ run_pc' = "created"
    /\ UNCHANGED << mode, validators, invoked >>
    /\ UNCHANGED notRun

NextRun ==
    \/ RunStart
    \/ RunValidator
    \/ RunAggregate
    \/ CreateReport

RunInit == IdlePipeline /\ InitRun /\ IdleResult /\ IdleTransform /\ IdleRest

SpecRun == RunInit /\ [][NextRun]_vars

(***************************************************************************)
(* Properties of ValidationPipeline.run and create_report.                 *)
(***************************************************************************)
\* C8: run calls the validators one after the other in declared order; in
\* fail_fast mode it stops after the first Result that has errors, in
\* continue mode it calls every validator; the Report's results are the
\* Results of the validators called, in that order.
C8_RunOrder ==
    /\ \A j \in 1..Len(invoked) : invoked[j].index = j
    /\ \A j \in 1..(Len(invoked) - 1) :
          /\ invoked[j].result # None
          /\ mode = "fail_fast" => invoked[j].result[1].errors = << >>
    /\ run_pc = "done" =>
          /\ report # None
          /\ report[1].results = [j \in 1..Len(invoked) |-> invoked[j].result[1]]
          /\ \/ Len(invoked) = Len(validators)
             \/ /\ mode = "fail_fast"
                /\ Len(invoked) > 0
                /\ invoked[Len(invoked)].result[1].errors # << >>

C8_Witness ==
    /\ run_pc = "done"
    /\ mode = "fail_fast"
    /\ Len(validators) = 2
    /\ Len(report[1].results) = 1
    /\ report[1].results[1].errors # << >>

\* C9: every Report of run or create_report has total == len(results),
\* passed == the number of results with is_valid true, failed == total -
\* passed and warnings_count == the sum of the lengths of the warnings
\* lists; the Report of a pipeline without validators has all counts zero
\* and is valid.
C9_ReportCounts ==
    report # None =>
       LET rep == report[1]
           n == Len(rep.results)
           warningsUpTo[j \in 0..n] ==
               IF j = 0 THEN 0 ELSE warningsUpTo[j - 1] + Len(rep.results[j].warnings)
       IN  /\ rep.total_validators = n
           /\ rep.passed = Cardinality({ j \in 1..n : rep.results[j].is_valid })
           /\ rep.failed = rep.total_validators - rep.passed
           /\ rep.warnings_count = warningsUpTo[n]
           /\ (run_pc = "done" /\ validators = << >>) =>
                 /\ rep.total_validators = 0
                 /\ rep.passed = 0
                 /\ rep.failed = 0
                 /\ rep.warnings_count = 0
                 /\ is_valid(rep)

C9_Witness ==
    /\ report # None
    /\ Len(report[1].results) = 2
    /\ report[1].passed = 1
    /\ report[1].failed = 1
    /\ report[1].warnings_count = 3

(***************************************************************************)
(* The ValidationResult objects that can come to exist: built by a caller  *)
(* or a custom validator through the constructor, by combine, or by        *)
(* from_json out of a serialized report.                                   *)
(***************************************************************************)
CustomNames == {"balance_check", "custom"}

\* ValidationResult(is_valid=..., errors=..., ...): any field values.
NewResult ==
    /\ origin = "none"
    /\ \E v \in BOOLEAN, e \in Messages("error"), w \in Messages("warning"),
          name \in CustomNames, m \in Metadatas :
         result' = Some(ValidationResult(v, e, w, name, m))
    /\ origin' = "constructor"
    /\ UNCHANGED notResult

\* ValidationResult.combine(results)
CombineResults ==
    /\ origin = "none"
    /\ \E rs \in ResultLists(MaxValidators) : result' = Some(combine(rs))
    /\ origin' = "combine"
    /\ UNCHANGED notResult

\* ValidationReport.from_json(data) on the serialization of a report: one of
\* the Results it rebuilds.
FromJson ==
    /\ origin = "none"
    /\ \E rs \in ResultLists(MaxValidators), now \in Clock :
         LET rebuilt == from_json(to_json(create_report(rs, now)))
         IN  \E j \in 1..Len(rebuilt.results) : result' = Some(rebuilt.results[j])
    /\ origin' = "from_json"
    /\ UNCHANGED notResult

NextResult ==
    \/ NewResult
    \/ CombineResults
    \/ FromJson

ResultInit == IdlePipeline /\ IdleRun /\ IdleResult /\ IdleTransform /\ IdleRest

SpecResult == ResultInit /\ [][NextResult]_vars

\* C10: every ValidationResult has is_valid false exactly when its errors
\* list is not empty, whatever its warnings.
C10_ValidIffNoErrors ==
    result # None => (result[1].is_valid = FALSE <=> result[1].errors # << >>)

(***************************************************************************)
(* fintran/validation/transform.py: ValidatingTransform                    *)
(***************************************************************************)
MaxPrior == 2

MetadataKeys == {"validation_report", "audit"}

\* dict.get(key, []) on a dictionary given as a set of <<key, value>> pairs.
DictGet(d, key) ==
    IF \E p \in d : p[1] = key THEN (CHOOSE p \in d : p[1] = key)[2] ELSE << >>

\* get_validation_reports: the attribute's entry when the frame has the
\* attribute; otherwise the column-metadata fallback, whose lookup raises
\* (a Series has no meta) and is answered by the except clause with [].
get_validation_reports(df, key) ==
    IF df.validation_metadata # None
    THEN DictGet(df.validation_metadata[1], key)
    ELSE << >>

\* A clone that is the object it was cloned from.
cloneAlias(df, fresh) == df

\* df.clone(): a new object with the same columns; attributes set on the
\* Python object are not carried over.
clone(df, fresh) ==
    [id |-> fresh, isdf |-> df.isdf, schema |-> df.schema,
     validation_metadata |-> None]

\* The list keeps only the new report.
AllReportsReplacing(existing_reports, report_data) == << report_data >>

\* Line 134: all_reports = existing_reports + [report_data]
AllReports(existing_reports, report_data) ==
    existing_reports \o << report_data >>

\* The attribute is set on df itself, which is returned.
attach_validation_reportInPlace(df, rep, key, fresh) ==
    [df EXCEPT !.validation_metadata =
       Some({ <<key, AllReports(get_validation_reports(df, key), to_json(rep))>> })]

\* attach_validation_report, lines 128-142; fresh is the identity of the
\* object that clone allocates.
attach_validation_report(df, rep, key, fresh) ==
    LET report_data == to_json(rep)
        existing_reports == get_validation_reports(df, key)
        all_reports == AllReports(existing_reports, report_data)
        df_with_metadata == clone(df, fresh)
    IN  [df_with_metadata EXCEPT
           !.validation_metadata = Some({ <<key, all_reports>> })]

\* The test never fails the transform.
MustFailNever(fail, rep) == FALSE

\* Line 87: self.fail_on_error and not report.is_valid()
MustFail(fail, rep) == fail /\ ~is_valid(rep)

\* Lines 88-91: the core ValidationError; its keyword validation_report is
\* stored in the context.
ValidationFailed(rep) ==
    [cls |-> "ValidationError", ctx |-> [validation_report |-> rep],
     cause |-> None, by |-> "ValidatingTransform"]

\* The j-th report a frame may already carry: the serialised report of a
\* run of j passing validators.
PriorReport(j) ==
    to_json(create_report(
        [m \in 1..j |-> ValidationResult(TRUE, << >>, << >>, ValidatorNames(j)[m], {})],
        CHOOSE now \in Clock : now.microsecond = 0))

\* The frames handed to a ValidatingTransform: without the attribute, or
\* with 0..MaxPrior reports under the default key (which is or is not the
\* key the transform is configured with).
TransformInputs ==
    { [id |-> 1, isdf |-> TRUE, schema |-> RequiredOnly, validation_metadata |-> m] :
        m \in {None} \cup { Some({ <<"validation_report", [j \in 1..n |-> PriorReport(j)]>> }) :
                              n \in 0..MaxPrior } }

\* A ValidatingTransform constructed over a pipeline, about to be called.
InitTransform ==
    /\ vt_pc = "call"
    /\ fail_on_error \in BOOLEAN
    /\ metadata_key \in MetadataKeys
    /\ vt_df \in TransformInputs
    /\ vt_runs = << >>
    /\ vt_reports = << >>
    /\ vt_out = None
    /\ vt_raised = None
    /\ run_pc = "idle"
    /\ mode \in {"fail_fast", "continue"}
    /\ validators \in { ValidatorNames(n) : n \in 0..MaxValidators }
    /\ timestamp = None
    /\ results = << >>
    /\ invoked = << >>
    /\ report = None

\* Line 140: setattr(df_with_metadata, ...) writes to one object.  The
\* object a reference obj denotes, after the write that left the object
\* written: the written object when both are the same object (same id),
\* obj as it was otherwise.
SeenThrough(obj, written) == IF written.id = obj.id THEN written ELSE obj

\* Line 84: report = self.pipeline.run(df), the call.
TransformCall ==
    /\ vt_pc = "call"
    /\ vt_pc' = "running"
    /\ vt_runs' = Append(vt_runs, vt_df)
    /\ run_pc' = "start"
    /\ UNCHANGED << fail_on_error, metadata_key, vt_df, vt_reports, vt_out, vt_raised >>
    /\ UNCHANGED << mode, validators, timestamp, results, invoked, report >>
    /\ UNCHANGED << pipelineVars, resultVars, parseVars, reportVars, checkVars, cliVars >>

\* Lines 84-96 after the run: an exception of a validator leaves transform
\* as it is; an invalid report under fail_on_error raises; otherwise the
\* report is attached to a clone, which is returned.
TransformReturn ==
    /\ vt_pc = "running"
    /\ run_pc \in {"done", "raised"}
    /\ IF run_pc = "raised"
       THEN /\ vt_raised' = Some(Raised("ValueError", None, "validator"))
            /\ vt_pc' = "raised"
            /\ UNCHANGED vt_out
       ELSE IF MustFail(fail_on_error, report[1])
       THEN /\ vt_raised' = Some(ValidationFailed(report[1]))
            /\ vt_pc' = "raised"
            /\ UNCHANGED vt_out
       ELSE /\ vt_out' = Some(attach_validation_report(vt_df, report[1],
                                                       metadata_key, vt_df.id + 1))
            /\ vt_pc' = "returned"
            /\ UNCHANGED vt_raised
    /\ vt_df' = (IF vt_out' = None THEN vt_df ELSE SeenThrough(vt_df, vt_out'[1]))
    /\ vt_reports' = (IF run_pc = "raised" THEN vt_reports
                      ELSE Append(vt_reports, report[1]))
    /\ UNCHANGED << fail_on_error, metadata_key, vt_runs >>
    /\ UNCHANGED << pipelineVars, runVars, resultVars, parseVars, reportVars, checkVars,
                    cliVars >>

NextTransform ==
    \/ TransformCall
    \/ RunStart
    \/ RunValidator
    \/ RunAggregate
    \/ TransformReturn

TransformInit == IdlePipeline /\ IdleResult /\ InitTransform /\ IdleRest

SpecTransform == TransformInit /\ [][NextTransform]_vars

(***************************************************************************)
(* Properties of ValidatingTransform.                                      *)
(***************************************************************************)
\* The call of transform is over.
TransformOver == vt_pc \in {"returned", "raised"}

C12_ReturnsNewInstanceWithReport ==
    (TransformOver /\ report # None /\ ~(fail_on_error /\ report[1].failed > 0))
      => /\ vt_pc = "returned"
         /\ vt_raised = None
         /\ vt_out # None
         /\ vt_out[1].id # vt_df.id
         /\ ~SameInstance(vt_df, vt_out[1])
         /\ vt_out[1].validation_metadata # None
         /\ \E p \in vt_out[1].validation_metadata[1] :
              /\ p[1] = metadata_key
              /\ Len(p[2]) > 0
              /\ p[2][Len(p[2])] = to_json(report[1])

C12_Witness ==
    /\ vt_pc = "returned"
    /\ fail_on_error
    /\ report # None
    /\ report[1].failed = 0
    /\ report[1].total_validators = MaxValidators
    /\ metadata_key = "audit"
    /\ vt_out # None

\* The reports a frame carries under a key.
ReportsUnder(df, key) ==
    IF df.validation_metadata = None THEN << >>
    ELSE IF \E p \in df.validation_metadata[1] : p[1] = key
    THEN (CHOOSE p \in df.validation_metadata[1] : p[1] = key)[2]
    ELSE << >>

\* C13: a frame that carries n reports under the key comes back carrying
\* n + 1 under that key: the n earlier ones unchanged and in their order,
\* then the new one.
C13_ReportsAccumulate ==
    vt_pc = "returned"
      => LET before == ReportsUnder(vt_df, metadata_key)
             after == ReportsUnder(vt_out[1], metadata_key)
         IN  /\ Len(after) = Len(before) + 1
             /\ \A j \in 1..Len(before) : after[j] = before[j]
             /\ after[Len(after)] = to_json(report[1])

C13_Witness ==
    /\ vt_pc = "returned"
    /\ Len(ReportsUnder(vt_df, metadata_key)) = MaxPrior
    /\ Len(ReportsUnder(vt_out[1], metadata_key)) = MaxPrior + 1

(***************************************************************************)
(* fintran/validation/declarative.py.  A configuration value whose Python  *)
(* type the code tests carries that type as a flag: a dictionary is        *)
(* [isdict, keys, ...] with the set of keys it has (the value of an absent *)
(* key is not looked at), a validator type is [isstr, v], a params value   *)
(* is [isdict, d] with d the keyword arguments, the validators value is    *)
(* [islist, items].                                                        *)
(***************************************************************************)
MaxEntries == 2

VALIDATOR_REGISTRY ==
    { <<"positive_amounts", "PositiveAmountsValidator">>,
      <<"currency_consistency", "CurrencyConsistencyValidator">>,
      <<"date_range", "DateRangeValidator">>,
      <<"duplicate_detection", "DuplicateDetectionValidator">>,
      <<"detect_duplicates", "DuplicateDetectionValidator">>,
      <<"missing_value_detection", "MissingValueDetectionValidator">>,
      <<"detect_missing", "MissingValueDetectionValidator">>,
      <<"outlier_detection", "OutlierDetectionValidator">>,
      <<"detect_outliers", "OutlierDetectionValidator">> }

RegistryKeys == { p[1] : p \in VALIDATOR_REGISTRY }

\* VALIDATOR_REGISTRY[validator_type]
RegistryClass(validator_type) ==
    (CHOOSE p \in VALIDATOR_REGISTRY : p[1] = validator_type)[2]

\* ConfigurationSchemaError(message, ...): an argument that is None leaves
\* no key in the context.
ConfigurationSchemaError(validator_index, validator_type, field, value, reason, cause) ==
    [cls |-> "ConfigurationSchemaError",
     ctx |-> [validator_index |-> validator_index, validator_type |-> validator_type,
              field |-> field, value |-> value, reason |-> reason],
     cause |-> cause, by |-> "declarative"]

\* An exception raised by a constructor call, with the text str(e) gives.
CtorError(cls, msg) == [cls |-> cls, msg |-> msg]

\* The keyword parameters of the constructors, required and optional.
PositiveAmountsSignature == [required |-> {"account_patterns"}, optional |-> {}]

CurrencyConsistencySignature == [required |-> {}, optional |-> {"group_by"}]

DateRangeSignature == [required |-> {}, optional |-> {"min_date", "max_date"}]

DuplicateDetectionSignature == [required |-> {"fields"}, optional |-> {"mode"}]

MissingValueDetectionSignature == [required |-> {"fields"}, optional |-> {}]

OutlierDetectionSignature == [required |-> {}, optional |-> {"method", "threshold"}]

Signature(cls) ==
    CASE cls = "PositiveAmountsValidator" -> PositiveAmountsSignature
      [] cls = "CurrencyConsistencyValidator" -> CurrencyConsistencySignature
      [] cls = "DateRangeValidator" -> DateRangeSignature
      [] cls = "DuplicateDetectionValidator" -> DuplicateDetectionSignature
      [] cls = "MissingValueDetectionValidator" -> MissingValueDetectionSignature
      [] cls = "OutlierDetectionValidator" -> OutlierDetectionSignature

\* Regular expressions, as far as the patterns of the model go: a pattern
\* is a string given as the sequence of its characters, an optional ^
\* followed by literal characters.  re.compile(pattern) raises re.error on
\* a pattern with an unclosed parenthesis.
Compiles(pattern) == \A j \in 1..Len(pattern) : pattern[j] # "("

\* The literal text lit occurs in text right after the first off characters.
MatchesAt(lit, text, off) ==
    /\ off + Len(lit) <= Len(text)
    /\ \A j \in 1..Len(lit) : text[off + j] = lit[j]

\* Series.str.contains(pattern) on a value that is not null: a regular
\* expression search.
str_contains(text, pattern) ==
    IF Len(pattern) > 0 /\ pattern[1] = "^"
    THEN MatchesAt(Tail(pattern), text, 0)
    ELSE \E off \in 0..Len(text) : MatchesAt(pattern, text, off)

\* The bodies of the constructors on bound arguments d: the exception
\* raised, if any.
PositiveAmountsInit(d) ==
    IF d.account_patterns = << >>
    THEN Some(CtorError("ValueError", "account_patterns must contain at least one pattern"))
    ELSE IF \E j \in 1..Len(d.account_patterns) : ~Compiles(d.account_patterns[j])
    THEN Some(CtorError("re.error", "missing ), unterminated subpattern"))
    ELSE None

\* group_by is an optional list: None, or the list in a sequence of one.
CurrencyConsistencyInit(d) ==
    IF "group_by" \in DOMAIN d /\ d.group_by # None /\ d.group_by[1] = << >>
    THEN Some(CtorError("ValueError", "group_by must contain at least one field or be None"))
    ELSE None

DateRangeInit(d) ==
    IF "min_date" \notin DOMAIN d /\ "max_date" \notin DOMAIN d
    THEN Some(CtorError("ValueError", "At least one of min_date or max_date must be specified"))
    ELSE IF "min_date" \in DOMAIN d /\ "max_date" \in DOMAIN d /\ d.min_date > d.max_date
    THEN Some(CtorError("ValueError", "min_date must be <= max_date"))
    ELSE None

DuplicateDetectionInit(d) ==
    IF d.fields = << >>
    THEN Some(CtorError("ValueError", "fields parameter must contain at least one field name"))
    ELSE IF "mode" \in DOMAIN d /\ d.mode \notin {"exact", "fuzzy"}
    THEN Some(CtorError("ValueError", "mode must be 'exact' or 'fuzzy'"))
    ELSE None

MissingValueDetectionInit(d) ==
    IF d.fields = << >>
    THEN Some(CtorError("ValueError", "fields parameter must contain at least one field name"))
    ELSE None

OutlierDetectionInit(d) ==
    LET method == IF "method" \in DOMAIN d THEN d.method ELSE "zscore"
        threshold == IF "threshold" \in DOMAIN d THEN d.threshold ELSE 3
    IN  IF method \notin {"zscore", "iqr", "percentile"}
        THEN Some(CtorError("ValueError", "method must be 'zscore', 'iqr', or 'percentile'"))
        ELSE IF threshold <= 0
        THEN Some(CtorError("ValueError", "threshold must be positive"))
        ELSE IF method = "percentile" /\ (threshold < 0 \/ threshold > 100)
        THEN Some(CtorError("ValueError", "percentile threshold must be between 0 and 100"))
        ELSE None

InitRaises(cls, d) ==
    CASE cls = "PositiveAmountsValidator" -> PositiveAmountsInit(d)
      [] cls = "CurrencyConsistencyValidator" -> CurrencyConsistencyInit(d)
      [] cls = "DateRangeValidator" -> DateRangeInit(d)
      [] cls = "DuplicateDetectionValidator" -> DuplicateDetectionInit(d)
      [] cls = "MissingValueDetectionValidator" -> MissingValueDetectionInit(d)
      [] cls = "OutlierDetectionValidator" -> OutlierDetectionInit(d)

\* validator_class(**params): the call binds the keywords (TypeError on a
\* missing or an unexpected one), then runs __init__.  The outcome is the
\* exception raised or the validator constructed.
Construct(cls, d) ==
    IF Signature(cls).required \ DOMAIN d # {}
    THEN [raised |-> Some(CtorError("TypeError", "missing required argument")),
          validator |-> None]
    ELSE IF DOMAIN d \ (Signature(cls).required \cup Signature(cls).optional) # {}
    THEN [raised |-> Some(CtorError("TypeError", "unexpected keyword argument")),
          validator |-> None]
    ELSE IF InitRaises(cls, d) # None
    THEN [raised |-> InitRaises(cls, d), validator |-> None]
    ELSE [raised |-> None, validator |-> Some([cls |-> cls, params |-> d])]

\* Every severity is accepted.
SeverityOkAny(severity) == TRUE

\* Line 343: severity in ("error", "warning")
SeverityOk(severity) == severity \in {"error", "warning"}

\* _validate_validator_spec, lines 279-355: the error it raises, if any.
validate_validator_spec(spec, index) ==
    IF ~spec.isdict
    THEN Some(ConfigurationSchemaError(Some(index), None, None, None,
                  Some("Invalid validator specification type"), None))
    ELSE IF "type" \notin spec.keys
    THEN Some(ConfigurationSchemaError(Some(index), None, Some("type"), None,
                  Some("Required field missing"), None))
    ELSE IF ~spec.type.isstr
    THEN Some(ConfigurationSchemaError(Some(index), Some(spec.type), Some("type"), None,
                  Some("Invalid field type"), None))
    ELSE IF spec.type.v \notin RegistryKeys
    THEN Some(ConfigurationSchemaError(Some(index), Some(spec.type), Some("type"), None,
                  Some("Validator type not found in registry"), None))
    ELSE IF "params" \in spec.keys /\ ~spec.params.isdict
    THEN Some(ConfigurationSchemaError(Some(index), Some(spec.type), Some("params"),
                  Some(spec.params), Some("Invalid field type"), None))
    ELSE IF "severity" \in spec.keys /\ ~SeverityOk(spec.severity)
    THEN Some(ConfigurationSchemaError(Some(index), Some(spec.type), Some("severity"),
                  Some(spec.severity), Some("Invalid severity value"), None))
    ELSE None

\* _validate_config_schema, lines 229-250: the checks before the loop.
validate_top(cfg) ==
    IF ~cfg.isdict
    THEN Some(ConfigurationSchemaError(None, None, None, None,
                  Some("Invalid configuration type"), None))
    ELSE IF "validators" \notin cfg.keys
    THEN Some(ConfigurationSchemaError(None, None, Some("validators"), None,
                  Some("Required field missing"), None))
    ELSE IF ~cfg.validators.islist
    THEN Some(ConfigurationSchemaError(None, None, Some("validators"),
                  Some(cfg.validators), Some("Invalid field type"), None))
    ELSE None

\* _validate_config_schema, lines 257-266: the mode check after the loop.
validate_mode(cfg) ==
    IF "mode" \in cfg.keys /\ cfg.mode \notin {"fail_fast", "continue"}
    THEN Some(ConfigurationSchemaError(None, None, Some("mode"), Some(cfg.mode),
                  Some("Invalid mode value"), None))
    ELSE None

\* ValidationMode(mode_str): the member with that value, or ValueError
\* (given as no member).
ValidationMode(mode_str) ==
    IF mode_str \in {"fail_fast", "continue"} THEN Some(mode_str) ELSE None

\* _construct_validator, lines 372-407: the validator, or the exception
\* that leaves the function.
construct_validator(spec, index) ==
    LET validator_type == spec.type
        params == IF "params" \in spec.keys THEN spec.params.d ELSE << >>
        validator_class == RegistryClass(validator_type.v)
        r == Construct(validator_class, params)
    IN  IF r.raised # None /\ r.raised[1].cls \in {"TypeError", "ValueError"}
        THEN [raised |-> Some(ConfigurationSchemaError(
                             Some(index), Some(validator_type), Some("params"),
                             Some(params), Some(r.raised[1].msg), r.raised)),
              validator |-> None]
        ELSE r

\* The iteration appends nothing and goes on when the constructor fails.
ConstructStepSkipping(validators_so_far, spec, idx) ==
    LET r == construct_validator(spec, idx)
    IN  IF r.raised = None
        THEN [validators |-> Append(validators_so_far, r.validator[1]), raised |-> None]
        ELSE [validators |-> validators_so_far, raised |-> None]

\* parse_config, lines 189-206, one iteration of the loop: the list after
\* it and the exception it raises, if any.
ConstructStep(validators_so_far, spec, idx) ==
    LET r == construct_validator(spec, idx)
    IN  IF r.raised = None
        THEN [validators |-> Append(validators_so_far, r.validator[1]), raised |-> None]
        ELSE IF r.raised[1].cls = "ConfigurationSchemaError"
        THEN [validators |-> validators_so_far, raised |-> r.raised]
        ELSE [validators |-> validators_so_far,
              raised |-> Some(ConfigurationSchemaError(
                             Some(idx),
                             Some(IF "type" \in spec.keys THEN spec.type
                                  ELSE [isstr |-> TRUE, v |-> "unknown"]),
                             None, None, Some(r.raised[1].msg), r.raised))]

\* A validator entry that is a dictionary with the given keys.
ValidatorSpec(keys, type, params, severity) ==
    [isdict |-> TRUE, keys |-> keys, type |-> [isstr |-> TRUE, v |-> type],
     params |-> [isdict |-> TRUE, d |-> params], severity |-> severity]

\* The validator entries of the documents: four that are accepted (the
\* first in both severities), six that are structurally invalid, three
\* whose constructor rejects them (TypeError, ValueError, re.error).
EntrySpecs ==
    { ValidatorSpec({"type", "params", "severity"}, "positive_amounts",
                    [account_patterns |-> << << "^", "4" >> >>], "error"),
      ValidatorSpec({"type", "params", "severity"}, "positive_amounts",
                    [account_patterns |-> << << "^", "4" >> >>], "warning"),
      ValidatorSpec({"type", "params"}, "detect_duplicates",
                    [fields |-> << "account" >>], ""),
      ValidatorSpec({"type"}, "currency_consistency", << >>, ""),
      [ValidatorSpec({}, "", << >>, "") EXCEPT !.isdict = FALSE],
      ValidatorSpec({"params"}, "", [fields |-> << "account" >>], ""),
      [ValidatorSpec({"type"}, "", << >>, "") EXCEPT !.type = [isstr |-> FALSE, v |-> "42"]],
      ValidatorSpec({"type"}, "no_such_validator", << >>, ""),
      [ValidatorSpec({"type", "params"}, "detect_missing", << >>, "")
         EXCEPT !.params = [isdict |-> FALSE, d |-> << >>]],
      ValidatorSpec({"type", "severity"}, "currency_consistency", << >>, "fatal"),
      ValidatorSpec({"type"}, "positive_amounts", << >>, ""),
      ValidatorSpec({"type", "params"}, "positive_amounts",
                    [account_patterns |-> << >>], ""),
      ValidatorSpec({"type", "params"}, "positive_amounts",
                    [account_patterns |-> << << "(" >> >>], "") }

\* The documents handed to parse_config.
Configs ==
    { [isdict |-> TRUE, keys |-> ks, validators |-> [islist |-> TRUE, items |-> es],
       mode |-> m] :
        es \in SeqsUpTo(EntrySpecs, MaxEntries),
        ks \in {{"validators", "mode"}},
        m \in {"fail_fast", "continue", "strict"} }
      \cup { [isdict |-> TRUE, keys |-> {"validators"},
              validators |-> [islist |-> TRUE, items |-> es], mode |-> ""] :
               es \in SeqsUpTo(EntrySpecs, MaxEntries) }
      \cup { [isdict |-> FALSE, keys |-> {},
              validators |-> [islist |-> FALSE, items |-> << >>], mode |-> ""],
             [isdict |-> TRUE, keys |-> {"mode"},
              validators |-> [islist |-> FALSE, items |-> << >>], mode |-> "continue"],
             [isdict |-> TRUE, keys |-> {"validators"},
              validators |-> [islist |-> FALSE, items |-> << >>], mode |-> ""] }

\* parse_config is called with a document.
InitParse ==
    /\ pr_pc = "validate_top"
    /\ config \in Configs
    /\ pr_idx = 0
    /\ pr_validators = << >>
    /\ pr_mode = None
    /\ pr_log = << >>
    /\ pr_out = None
    /\ pr_raised = None

\* An entry of the log.
Event(op, index) == [op |-> op, index |-> index]

\* Where the validation loop goes after idx entries of n.
AfterValidated(idx, n) == IF idx < n THEN "validate_spec" ELSE "validate_mode"

\* Where the construction loop goes after idx entries of n.
AfterConstructed(idx, n) == IF idx < n THEN "construct" ELSE "return"

\* Lines 170, 229-250: the top-level checks of _validate_config_schema.
ValidateTop ==
    /\ pr_pc = "validate_top"
    /\ IF validate_top(config) # None
       THEN /\ pr_raised' = validate_top(config)
            /\ pr_pc' = "raised"
       ELSE /\ pr_pc' = AfterValidated(0, Len(config.validators.items))
            /\ UNCHANGED pr_raised
    /\ UNCHANGED << config, pr_idx, pr_validators, pr_mode, pr_log, pr_out >>
    /\ UNCHANGED notParse

\* Lines 253-254, one iteration: _validate_validator_spec(validator_spec, idx).
ValidateSpec ==
    /\ pr_pc = "validate_spec"
    /\ pr_log' = Append(pr_log, Event("validate", pr_idx))
    /\ LET e == validate_validator_spec(config.validators.items[pr_idx + 1], pr_idx)
       IN  IF e # None
           THEN /\ pr_raised' = e
                /\ pr_pc' = "raised"
                /\ UNCHANGED pr_idx
           ELSE /\ pr_pc' = AfterValidated(pr_idx + 1, Len(config.validators.items))
                /\ pr_idx' = pr_idx + 1
                /\ UNCHANGED pr_raised
    /\ UNCHANGED << config, pr_validators, pr_mode, pr_out >>
    /\ UNCHANGED notParse

\* Lines 257-266: the mode check that ends _validate_config_schema.
ValidateMode ==
    /\ pr_pc = "validate_mode"
    /\ pr_log' = Append(pr_log, Event("validate_mode", 0))
    /\ IF validate_mode(config) # None
       THEN /\ pr_raised' = validate_mode(config)
            /\ pr_pc' = "raised"
       ELSE /\ pr_pc' = "mode"
            /\ UNCHANGED pr_raised
    /\ UNCHANGED << config, pr_idx, pr_validators, pr_mode, pr_out >>
    /\ UNCHANGED notParse

\* Lines 173-183: mode = ValidationMode(config.get("mode", "continue")).
ExtractMode ==
    /\ pr_pc = "mode"
    /\ LET mode_str == IF "mode" \in config.keys THEN config.mode ELSE "continue"
       IN  IF ValidationMode(mode_str) = None
           THEN /\ pr_raised' = Some(ConfigurationSchemaError(
                                   None, None, Some("mode"), Some(mode_str),
                                   Some("Invalid mode value"),
                                   Some(CtorError("ValueError", "not a valid ValidationMode"))))
                /\ pr_pc' = "raised"
                /\ UNCHANGED pr_mode
           ELSE /\ pr_mode' = ValidationMode(mode_str)
                /\ pr_pc' = AfterConstructed(0, Len(config.validators.items))
                /\ UNCHANGED pr_raised
    /\ pr_idx' = 0
    /\ UNCHANGED << config, pr_validators, pr_log, pr_out >>
    /\ UNCHANGED notParse

\* Lines 189-206, one iteration: the constructor of the entry is called.
ConstructValidator ==
    /\ pr_pc = "construct"
    /\ pr_log' = Append(pr_log, Event("construct", pr_idx))
    /\ LET step == ConstructStep(pr_validators, config.validators.items[pr_idx + 1], pr_idx)
       IN  /\ pr_validators' = step.validators
           /\ IF step.raised # None
              THEN /\ pr_raised' = step.raised
                   /\ pr_pc' = "raised"
                   /\ UNCHANGED pr_idx
              ELSE /\ pr_pc' = AfterConstructed(pr_idx + 1, Len(config.validators.items))
                   /\ pr_idx' = pr_idx + 1
                   /\ UNCHANGED pr_raised
    /\ UNCHANGED << config, pr_mode, pr_out >>
    /\ UNCHANGED notParse

\* Line 209: return ValidationPipeline(validators=validators, mode=mode).
ParseReturn ==
    /\ pr_pc = "return"
    /\ pr_out' = Some([validators |-> pr_validators, mode |-> pr_mode[1]])
    /\ pr_pc' = "returned"
    /\ UNCHANGED << config, pr_idx, pr_validators, pr_mode, pr_log, pr_raised >>
    /\ UNCHANGED notParse

NextParse ==
    \/ ValidateTop
    \/ ValidateSpec
    \/ ValidateMode
    \/ ExtractMode
    \/ ConstructValidator
    \/ ParseReturn

ParseInit ==
    /\ IdlePipeline /\ IdleRun /\ IdleResult /\ IdleTransform
    /\ InitParse /\ IdleReport /\ IdleCheck /\ IdleConvert /\ IdleBatch

SpecParse == ParseInit /\ [][NextParse]_vars

(***************************************************************************)
(* Properties of parse_config.                                             *)
(***************************************************************************)
\* The entries of the document (none when it has no validators list).
Entries == IF config.isdict /\ config.validators.islist
           THEN config.validators.items ELSE << >>

\* An entry is structurally valid: a dictionary with a registered string
\* type, params (if any) a dictionary, severity (if any) error or warning.
WellFormedEntry(spec) ==
    /\ spec.isdict
    /\ "type" \in spec.keys
    /\ spec.type.isstr
    /\ \E p \in VALIDATOR_REGISTRY : p[1] = spec.type.v
    /\ "params" \in spec.keys => spec.params.isdict
    /\ "severity" \in spec.keys => spec.severity \in {"error", "warning"}

\* The whole document is structurally valid.
WellFormedConfig ==
    /\ config.isdict
    /\ "validators" \in config.keys
    /\ config.validators.islist
    /\ \A j \in 1..Len(Entries) : WellFormedEntry(Entries[j])
    /\ "mode" \in config.keys => config.mode \in {"fail_fast", "continue"}

\* C14: a constructor is called only after every entry and the mode have
\* been checked: in the log all checks precede all constructor calls, the
\* first constructor call comes after the check of every entry and of the
\* mode, and a document that is structurally invalid anywhere sees no
\* constructor call at all.
C14_ValidationPrecedesConstruction ==
    /\ \A a, b \in 1..Len(pr_log) :
         (pr_log[a].op = "construct" /\ pr_log[b].op # "construct") => b < a
    /\ (\E a \in 1..Len(pr_log) : pr_log[a].op = "construct")
         => /\ \A j \in 1..Len(Entries) :
                 \E b \in 1..Len(pr_log) :
                   pr_log[b].op = "validate" /\ pr_log[b].index = j - 1
            /\ \E b \in 1..Len(pr_log) : pr_log[b].op = "validate_mode"
            /\ WellFormedConfig
    /\ ~WellFormedConfig
         => /\ \A a \in 1..Len(pr_log) : pr_log[a].op # "construct"
            /\ pr_validators = << >>
            /\ pr_out = None

\* A document whose first entry is valid and whose last is not has ended
\* without a constructor call.
C14_Witness ==
    /\ pr_pc = "raised"
    /\ Len(Entries) = MaxEntries
    /\ WellFormedEntry(Entries[1])
    /\ ~WellFormedEntry(Entries[Len(Entries)])
    /\ \A a \in 1..Len(pr_log) : pr_log[a].op # "construct"

\* The constructor of entry j (from 1) rejects the entry's params.
Rejects(j) ==
    LET spec == Entries[j]
    IN  Construct((CHOOSE p \in VALIDATOR_REGISTRY : p[1] = spec.type.v)[2],
                  IF "params" \in spec.keys THEN spec.params.d ELSE << >>).raised # None

\* C15: parse_config returns a pipeline with exactly one validator per
\* entry, in the order of the document and of the class the registry gives
\* for the entry's type, or it raises a ConfigurationSchemaError and
\* returns nothing.  When a constructor rejects its params, the call ends
\* in an error whose context names the index and the type of the entry and
\* whose reason is the text of the constructor's exception.
C15_WholePipelineOrSchemaError ==
    /\ pr_out # None => pr_pc = "returned"
    /\ pr_pc = "returned"
         => /\ pr_raised = None
            /\ pr_out # None
            /\ Len(pr_out[1].validators) = Len(Entries)
            /\ \A j \in 1..Len(Entries) :
                 \E p \in VALIDATOR_REGISTRY :
                   /\ p[1] = Entries[j].type.v
                   /\ pr_out[1].validators[j].cls = p[2]
    /\ pr_pc = "raised"
         => /\ pr_out = None
            /\ pr_raised # None
            /\ pr_raised[1].cls = "ConfigurationSchemaError"
    /\ \A a \in 1..Len(pr_log) :
         (pr_log[a].op = "construct" /\ Rejects(pr_log[a].index + 1))
           => /\ a = Len(pr_log)
              /\ pr_pc = "raised"
              /\ pr_raised[1].ctx.validator_index = Some(pr_log[a].index)
              /\ pr_raised[1].ctx.validator_type = Some(Entries[pr_log[a].index + 1].type)
              /\ pr_raised[1].cause # None
              /\ pr_raised[1].ctx.reason = Some(pr_raised[1].cause[1].msg)

\* The constructor of the last entry failed with an error that is neither
\* a TypeError nor a ValueError, after the first entry was constructed.
C15_Witness ==
    /\ pr_pc = "raised"
    /\ Len(pr_log) > 0
    /\ pr_log[Len(pr_log)] = [op |-> "construct", index |-> MaxEntries - 1]
    /\ Len(pr_validators) = MaxEntries - 1
    /\ pr_raised[1].cause # None
    /\ pr_raised[1].cause[1].cls = "re.error"

(***************************************************************************)
(* fintran/validation/report.py: to_json followed by from_json.            *)
(***************************************************************************)
\* The Results of the reports that are serialised: valid or not, with
\* 0..MaxMessages errors, with and without metadata.
ReportResults(name) ==
    { ValidationResult(v, e, << >>, name, m) :
        v \in BOOLEAN, e \in Messages("error"), m \in Metadatas }
      \cup { ValidationResult(TRUE, << >>, w, name, {}) :
               w \in Messages("warning") }

RECURSIVE ReportResultLists(_)
ReportResultLists(n) ==
    IF n = 0 THEN { << >> }
    ELSE LET shorter == ReportResultLists(n - 1)
         IN  shorter \cup { Append(rs, r) : rs \in { t \in shorter : Len(t) = n - 1 },
                                            r \in ReportResults(ValidatorNames(n)[n]) }

\* The reports: those create_report builds, and one built with the
\* dataclass constructor from counts of the caller's choosing.
Reports ==
    { create_report(rs, now) : rs \in ReportResultLists(MaxValidators), now \in Clock }
      \cup { ValidationReport(<< >>, now, MaxValidators, 0, MaxValidators, MaxMessages) :
               now \in Clock }

InitReport ==
    /\ rt_pc = "report"
    /\ rt_report \in { Some(r) : r \in Reports }
    /\ rt_doc = None
    /\ rt_restored = None

\* report.to_json()
Serialize ==
    /\ rt_pc = "report"
    /\ rt_doc' = Some(to_json(rt_report[1]))
    /\ rt_pc' = "serialized"
    /\ UNCHANGED << rt_report, rt_restored >>
    /\ UNCHANGED notReport

\* ValidationReport.from_json(doc)
Deserialize ==
    /\ rt_pc = "serialized"
    /\ rt_restored' = Some(from_json(rt_doc[1]))
    /\ rt_pc' = "restored"
    /\ UNCHANGED << rt_report, rt_doc >>
    /\ UNCHANGED notReport

NextReport ==
    \/ Serialize
    \/ Deserialize

ReportInit ==
    /\ IdlePipeline /\ IdleRun /\ IdleResult /\ IdleTransform
    /\ IdleParse /\ InitReport /\ IdleCheck /\ IdleConvert /\ IdleBatch

SpecReport == ReportInit /\ [][NextReport]_vars

\* C16: the report read back from the serialisation of a report has the
\* same total, passed, failed and warnings_count and the same timestamp,
\* and as many results in the same order, each with the same
\* validator_name, is_valid, errors, warnings and metadata.
C16_JsonRoundTrip ==
    rt_pc = "restored"
      => LET r == rt_report[1]
             q == rt_restored[1]
         IN  /\ q.total_validators = r.total_validators
             /\ q.passed = r.passed
             /\ q.failed = r.failed
             /\ q.warnings_count = r.warnings_count
             /\ q.timestamp = r.timestamp
             /\ Len(q.results) = Len(r.results)
             /\ \A j \in 1..Len(r.results) :
                  /\ q.results[j].validator_name = r.results[j].validator_name
                  /\ q.results[j].is_valid = r.results[j].is_valid
                  /\ q.results[j].errors = r.results[j].errors
                  /\ q.results[j].warnings = r.results[j].warnings
                  /\ q.results[j].metadata = r.results[j].metadata

\* A report with a fractional timestamp, a full list of results, errors
\* and metadata has made the round trip.
C16_Witness ==
    /\ rt_pc = "restored"
    /\ rt_report[1].timestamp.microsecond # 0
    /\ Len(rt_report[1].results) = MaxValidators
    /\ rt_report[1].results[1].metadata # {}
    /\ Len(rt_report[1].results[1].errors) = MaxMessages

(***************************************************************************)
(* The built-in validators.  The dataset a validator looks at is a record  *)
(* [columns, rows]: the set of its column names and the sequence of its    *)
(* rows; a row gives each column an optional value (None is null), an      *)
(* account being a string given as the sequence of its characters.  The    *)
(* value a row gives to a column the dataset does not have is not looked   *)
(* at.  A call of validate ends in an outcome [result, raised, scanned]:   *)
(* the Result returned or the class of the exception raised, and whether   *)
(* the call went past the column checks to the rows.  validate is given as *)
(* the set of the outcomes a call can have.  The messages of a Result are  *)
(* records of the text and of the values formatted into it.                *)
(***************************************************************************)
MaxRows == 4

Returned(r, scanned) == [result |-> Some(r), raised |-> None, scanned |-> scanned]

Threw(cls) == [result |-> None, raised |-> Some(cls), scanned |-> TRUE]

\* The positions of the rows of df that pass Test, in row order: what
\* df.with_row_index(...).filter(...) keeps (the index counts from 0).
Filter(df, Test(_)) ==
    SelectSeq([j \in 1..Len(df.rows) |-> j], LAMBDA j : Test(df.rows[j]))

\* The ways to list a set.
Orderings(S) ==
    { f \in [1..Cardinality(S) -> S] :
        \A a, b \in 1..Cardinality(S) : a # b => f[a] # f[b] }

(***************************************************************************)
(* fintran/validation/business/amounts.py                                  *)
(***************************************************************************)
\* Only a negative amount counts.
NonPositiveStrict(amount) == amount < 0

\* Line 127: pl.col("amount") <= 0
NonPositive(amount) == amount <= 0

\* Lines 122-127: mask & (amount <= 0), which filter keeps where it is
\* true; a null account or amount makes it null.
PositiveAmountsViolation(v, row) ==
    /\ row.account # None
    /\ \E j \in 1..Len(v.params.account_patterns) :
         str_contains(row.account[1], v.params.account_patterns[j])
    /\ row.amount # None
    /\ NonPositive(row.amount[1])

\* PositiveAmountsValidator.validate
PositiveAmountsValidate(v, df) ==
    IF "account" \notin df.columns
    THEN { Returned(ValidationResult(FALSE,
               << [text |-> "Required field not found in DataFrame", field |-> "account"] >>,
               << >>, "PositiveAmountsValidator", {}), FALSE) }
    ELSE IF "amount" \notin df.columns
    THEN { Returned(ValidationResult(FALSE,
               << [text |-> "Required field not found in DataFrame", field |-> "amount"] >>,
               << >>, "PositiveAmountsValidator", {}), FALSE) }
    ELSE LET violations == Filter(df, LAMBDA row : PositiveAmountsViolation(v, row))
         IN  IF Len(violations) = 0
             THEN { Returned(ValidationResult(TRUE, << >>, << >>,
                                              "PositiveAmountsValidator", {}), TRUE) }
             ELSE { Returned(ValidationResult(FALSE,
                        [k \in 1..Len(violations) |->
                           [text |-> "Account has non-positive amount",
                            account |-> df.rows[violations[k]].account[1],
                            amount |-> df.rows[violations[k]].amount[1],
                            row |-> violations[k] - 1]],
                        << >>, "PositiveAmountsValidator",
                        { <<"violation_count", Len(violations)>> }), TRUE) }

(***************************************************************************)
(* fintran/validation/business/currency.py                                 *)
(***************************************************************************)
\* The order of the currency codes and of NULL as strings.
StrRank(str) ==
    CASE str = "EUR" -> 1
      [] str = "NULL" -> 2
      [] str = "USD" -> 3

\* Line 167: str(c) if c is not None else "NULL"
CurrencyStr(c) == IF c = None THEN "NULL" ELSE c[1]

\* The list is left in the order unique() gave.
CurrencyListsUnsorted(currencies) ==
    { [k \in 1..Cardinality(currencies) |-> CurrencyStr(order[k])] :
        order \in Orderings(currencies) }

\* Lines 165-168: the currencies of a group come in an order unique() does
\* not fix, and are sorted as strings.
CurrencyLists(currencies) ==
    { SortSeq([k \in 1..Cardinality(currencies) |-> CurrencyStr(order[k])],
              LAMBDA a, b : StrRank(a) < StrRank(b)) :
        order \in Orderings(currencies) }

\* The group a row belongs to: its values of the grouping fields.
GroupKey(row, group_by) == [k \in 1..Len(group_by) |-> row[group_by[k]]]

\* _validate_whole_dataframe: sorted() cannot compare None with a string.
ValidateWholeDataframe(df) ==
    LET unique_currencies == { df.rows[j].currency : j \in 1..Len(df.rows) }
        currency_count == Cardinality(unique_currencies)
    IN  IF currency_count <= 1
        THEN { Returned(ValidationResult(TRUE, << >>, << >>,
                                         "CurrencyConsistencyValidator", {}), TRUE) }
        ELSE IF None \in unique_currencies
        THEN { Threw("TypeError") }
        ELSE { Returned(ValidationResult(FALSE,
                   << [text |-> "DataFrame has multiple currencies",
                       currencies |-> SortSeq([k \in 1..currency_count |-> order[k][1]],
                                              LAMBDA a, b : StrRank(a) < StrRank(b)),
                       count |-> currency_count] >>,
                   << >>, "CurrencyConsistencyValidator",
                   { <<"currency_count", currency_count>> }), TRUE) :
                 order \in Orderings(unique_currencies) }

\* CurrencyConsistencyValidator.validate.  group_by(...) gives the groups
\* in an order it does not fix.
CurrencyConsistencyValidate(v, df) ==
    LET validate_whole_df == "group_by" \in DOMAIN v.params /\ v.params.group_by = None
        group_by == IF "group_by" \in DOMAIN v.params /\ v.params.group_by # None
                    THEN v.params.group_by[1] ELSE << "account" >>
        missing_fields == SelectSeq(group_by, LAMBDA f : f \notin df.columns)
        keys == { GroupKey(df.rows[j], group_by) : j \in 1..Len(df.rows) }
        Currencies(key) == { df.rows[j].currency :
                               j \in { n \in 1..Len(df.rows) :
                                         GroupKey(df.rows[n], group_by) = key } }
        violations == { key \in keys : Cardinality(Currencies(key)) > 1 }
    IN  IF "currency" \notin df.columns
        THEN { Returned(ValidationResult(FALSE,
                   << [text |-> "Required field not found in DataFrame",
                       field |-> "currency"] >>,
                   << >>, "CurrencyConsistencyValidator", {}), FALSE) }
        ELSE IF validate_whole_df
        THEN ValidateWholeDataframe(df)
        ELSE IF missing_fields # << >>
        THEN { Returned(ValidationResult(FALSE,
                   [k \in 1..Len(missing_fields) |->
                      [text |-> "Required grouping field not found in DataFrame",
                       field |-> missing_fields[k]]],
                   << >>, "CurrencyConsistencyValidator", {}), FALSE) }
        ELSE IF violations = {}
        THEN { Returned(ValidationResult(TRUE, << >>, << >>,
                                         "CurrencyConsistencyValidator", {}), TRUE) }
        ELSE { Returned(ValidationResult(FALSE,
                   [k \in 1..Cardinality(violations) |->
                      [text |-> "Group has multiple currencies",
                       group |-> order[k],
                       currencies |-> lists[order[k]],
                       count |-> Cardinality(Currencies(order[k]))]],
                   << >>, "CurrencyConsistencyValidator",
                   { <<"groups_with_violations", Cardinality(violations)>> }), TRUE) :
                 order \in Orderings(violations),
                 lists \in { f \in [violations -> UNION { CurrencyLists(Currencies(key)) :
                                                          key \in violations }] :
                               \A key \in violations :
                                 f[key] \in CurrencyLists(Currencies(key)) } }

(***************************************************************************)
(* fintran/validation/business/dates.py                                    *)
(***************************************************************************)
\* Lines 125-136: the mask of the dates before min_date or after max_date;
\* a null date makes it null.
DateRangeViolation(v, row) ==
    /\ row.date # None
    /\ \/ "min_date" \in DOMAIN v.params /\ row.date[1] < v.params.min_date
       \/ "max_date" \in DOMAIN v.params /\ row.date[1] > v.params.max_date

\* DateRangeValidator.validate
DateRangeValidate(v, df) ==
    IF "date" \notin df.columns
    THEN { Returned(ValidationResult(FALSE,
               << [text |-> "Required field not found in DataFrame", field |-> "date"] >>,
               << >>, "DateRangeValidator", {}), FALSE) }
    ELSE LET violations == Filter(df, LAMBDA row : DateRangeViolation(v, row))
         IN  IF Len(violations) = 0
             THEN { Returned(ValidationResult(TRUE, << >>, << >>,
                                              "DateRangeValidator", {}), TRUE) }
             ELSE { Returned(ValidationResult(FALSE,
                        [k \in 1..Len(violations) |->
                           LET date_value == df.rows[violations[k]].date[1]
                           IN  [text |-> IF "min_date" \in DOMAIN v.params
                                            /\ date_value < v.params.min_date
                                         THEN "Date is before minimum date"
                                         ELSE "Date is after maximum date",
                                row |-> violations[k] - 1,
                                date |-> date_value]],
                        << >>, "DateRangeValidator",
                        { <<"violation_count", Len(violations)>> }), TRUE) }

(***************************************************************************)
(* fintran/validation/quality/duplicates.py                                *)
(***************************************************************************)
\* A slice that keeps the whole list.
Head10Whole(seq) == seq

\* Line 139: duplicate_indices[:10], and the first 10 rows of outliers.
Head10(seq) == SubSeq(seq, 1, IF Len(seq) < 10 THEN Len(seq) ELSE 10)

\* DuplicateDetectionValidator.validate
DuplicateDetectionValidate(v, df) ==
    LET fields == v.params.fields
        detection_mode == IF "mode" \in DOMAIN v.params THEN v.params.mode ELSE "exact"
        missing_fields == SelectSeq(fields, LAMBDA f : f \notin df.columns)
        IsDuplicated(row) ==
            Cardinality({ n \in 1..Len(df.rows) :
                            GroupKey(df.rows[n], fields) = GroupKey(row, fields) }) > 1
        duplicate_rows == Filter(df, IsDuplicated)
        duplicate_indices == [k \in 1..Len(duplicate_rows) |-> duplicate_rows[k] - 1]
    IN  IF missing_fields # << >>
        THEN { Returned(ValidationResult(FALSE,
                   << [text |-> "Cannot check duplicates: fields not found in DataFrame",
                       fields |-> missing_fields] >>,
                   << >>, "duplicate_detection", {}), FALSE) }
        ELSE IF detection_mode = "exact"
        THEN IF Len(duplicate_rows) = 0
             THEN { Returned(ValidationResult(TRUE, << >>, << >>, "duplicate_detection",
                                              { <<"duplicate_count", 0>> }), TRUE) }
             ELSE { Returned(ValidationResult(TRUE, << >>,
                        << [text |-> "Found duplicate transactions",
                            count |-> Len(duplicate_rows),
                            fields |-> fields,
                            rows |-> Head10(duplicate_indices),
                            ellipsis |-> Len(duplicate_indices) > 10] >>,
                        "duplicate_detection",
                        { <<"duplicate_count", Len(duplicate_rows)>> }), TRUE) }
        ELSE { Returned(ValidationResult(FALSE,
                   << [text |-> "Fuzzy matching mode is not yet implemented",
                       fields |-> << >>] >>,
                   << >>, "duplicate_detection", {}), FALSE) }

(***************************************************************************)
(* fintran/validation/quality/missing.py                                   *)
(***************************************************************************)
\* Lines 117-126: the nulls of the field and, when the field is a string
\* column, its empty strings.
MissingCount(df, field) ==
    LET null_count == Cardinality({ n \in 1..Len(df.rows) : df.rows[n][field] = None })
        empty == IF field = "account" THEN << >> ELSE ""
        empty_count == Cardinality({ n \in 1..Len(df.rows) :
                                       /\ df.rows[n][field] # None
                                       /\ df.rows[n][field][1] = empty })
    IN  IF <<field, "Utf8">> \in IR_SCHEMA THEN null_count + empty_count ELSE null_count

\* MissingValueDetectionValidator.validate
MissingValueDetectionValidate(v, df) ==
    LET fields == v.params.fields
        missing_fields == SelectSeq(fields, LAMBDA f : f \notin df.columns)
        total_rows == Len(df.rows)
        with_missing == SelectSeq(fields, LAMBDA f : MissingCount(df, f) > 0)
        warnings == [k \in 1..Len(with_missing) |->
                       [text |-> "Field has missing values",
                        field |-> with_missing[k],
                        missing_count |-> MissingCount(df, with_missing[k]),
                        total_rows |-> total_rows]]
    IN  IF missing_fields # << >>
        THEN { Returned(ValidationResult(FALSE,
                   << [text |-> "Cannot check missing values: fields not found in DataFrame",
                       fields |-> missing_fields] >>,
                   << >>, "missing_value_detection", {}), FALSE) }
        ELSE IF total_rows = 0
        THEN { Returned(ValidationResult(TRUE, << >>, << >>, "missing_value_detection",
                                         { <<"total_rows", 0>> }), TRUE) }
        ELSE { Returned(ValidationResult(TRUE, << >>, warnings, "missing_value_detection",
                                         { <<"total_rows", total_rows>> }), TRUE) }

(***************************************************************************)
(* fintran/validation/quality/outliers.py.  Amounts and thresholds are     *)
(* whole numbers, and the comparisons of means, deviations and bounds are  *)
(* made exactly, in integers.                                              *)
(***************************************************************************)
\* The amounts of the rows that are not null, in row order.
Amounts(df) ==
    LET present == Filter(df, LAMBDA row : row.amount # None)
    IN  [k \in 1..Len(present) |-> df.rows[present[k]].amount[1]]

RECURSIVE Sum(_)
Sum(xs) == IF xs = << >> THEN 0 ELSE xs[1] + Sum(Tail(xs))

\* Series.quantile(a / 200) with the default nearest interpolation: the
\* value at the rounded position among the sorted values that are not
\* null, or None when there is none.
Quantile(xs, a) ==
    IF xs = << >> THEN None
    ELSE Some(SortSeq(xs, LAMBDA x, y : x < y)[(((Len(xs) - 1) * a + 100) \div 200) + 1])

\* The warnings of the three methods: a summary, the first 10 outliers,
\* and a line for the rest.
OutlierWarnings(df, outliers, method) ==
    << [text |-> "Found outlier amounts", count |-> Len(outliers), method |-> method,
        row |-> 0, amount |-> 0] >>
      \o [k \in 1..Len(Head10(outliers)) |->
            [text |-> "Row", count |-> 0, method |-> method,
             row |-> outliers[k] - 1, amount |-> df.rows[outliers[k]].amount[1]]]
      \o (IF Len(outliers) > 10
          THEN << [text |-> "... and more outliers", count |-> Len(outliers) - 10,
                   method |-> method, row |-> 0, amount |-> 0] >>
          ELSE << >>)

\* The Result of a method for the outliers it found.
OutlierResult(df, outliers, method) ==
    IF Len(outliers) = 0
    THEN Returned(ValidationResult(TRUE, << >>, << >>, "outlier_detection",
                                   { <<"outlier_count", 0>> }), TRUE)
    ELSE Returned(ValidationResult(TRUE, << >>, OutlierWarnings(df, outliers, method),
                                   "outlier_detection",
                                   { <<"outlier_count", Len(outliers)>> }), TRUE)

\* _detect_zscore.  With m values of sum s and sum of squares q, the
\* deviation is 0 when m * q = s * s and None when m < 2, and
\* |x - mean| / std > threshold is
\* (m * x - s)^2 * (m - 1) > threshold^2 * m * (m * q - s * s).
DetectZscore(v, df) ==
    LET xs == Amounts(df)
        m == Len(xs)
        sum == Sum(xs)
        squares == Sum([k \in 1..m |-> xs[k] * xs[k]])
        threshold == IF "threshold" \in DOMAIN v.params THEN v.params.threshold ELSE 3
        spread == m * squares - sum * sum
        IsOutlier(row) ==
            /\ row.amount # None
            /\ (m * row.amount[1] - sum) * (m * row.amount[1] - sum) * (m - 1)
                 > threshold * threshold * m * spread
    IN  IF m < 2 \/ spread = 0
        THEN Returned(ValidationResult(TRUE, << >>, << >>, "outlier_detection",
                                       { <<"outlier_count", 0>> }), TRUE)
        ELSE OutlierResult(df, Filter(df, IsOutlier), "zscore")

\* _detect_iqr.  Line 219 subtracts the quartiles before the test for None
\* of line 222: None - None is a TypeError.
DetectIqr(v, df) ==
    LET xs == Amounts(df)
        threshold == IF "threshold" \in DOMAIN v.params THEN v.params.threshold ELSE 3
        q1 == Quantile(xs, 50)
        q3 == Quantile(xs, 150)
        iqr == q3[1] - q1[1]
        lower_bound == q1[1] - threshold * iqr
        upper_bound == q3[1] + threshold * iqr
        IsOutlier(row) ==
            /\ row.amount # None
            /\ (row.amount[1] < lower_bound \/ row.amount[1] > upper_bound)
    IN  IF q1 = None \/ q3 = None
        THEN Threw("TypeError")
        ELSE IF iqr = 0
        THEN Returned(ValidationResult(TRUE, << >>, << >>, "outlier_detection",
                                       { <<"outlier_count", 0>> }), TRUE)
        ELSE OutlierResult(df, Filter(df, IsOutlier), "iqr")

\* A percentile method whose bounds are the quantiles threshold / 200 and
\* 1 - threshold / 200.
DetectPercentileHalved(v, df) ==
    LET xs == Amounts(df)
        threshold == IF "threshold" \in DOMAIN v.params THEN v.params.threshold ELSE 3
        lower_bound == Quantile(xs, threshold)
        upper_bound == Quantile(xs, 200 - threshold)
        IsOutlier(row) ==
            /\ row.amount # None
            /\ lower_bound # None
            /\ upper_bound # None
            /\ (row.amount[1] < lower_bound[1] \/ row.amount[1] > upper_bound[1])
    IN  OutlierResult(df, Filter(df, IsOutlier), "percentile")

\* _detect_percentile.  The bounds are the quantiles (100 - threshold) / 200
\* and (100 + threshold) / 200; a comparison with a bound that is None is
\* null, so that no row is kept.
DetectPercentile(v, df) ==
    LET xs == Amounts(df)
        threshold == IF "threshold" \in DOMAIN v.params THEN v.params.threshold ELSE 3
        lower_bound == Quantile(xs, 100 - threshold)
        upper_bound == Quantile(xs, 100 + threshold)
        IsOutlier(row) ==
            /\ row.amount # None
            /\ lower_bound # None
            /\ upper_bound # None
            /\ (row.amount[1] < lower_bound[1] \/ row.amount[1] > upper_bound[1])
    IN  OutlierResult(df, Filter(df, IsOutlier), "percentile")

\* OutlierDetectionValidator.validate
OutlierDetectionValidate(v, df) ==
    LET method == IF "method" \in DOMAIN v.params THEN v.params.method ELSE "zscore"
    IN  IF "amount" \notin df.columns
        THEN { Returned(ValidationResult(FALSE,
                   << [text |-> "Cannot detect outliers: field not found in DataFrame",
                       field |-> "amount"] >>,
                   << >>, "outlier_detection", {}), FALSE) }
        ELSE IF Len(df.rows) < 2
        THEN { Returned(ValidationResult(TRUE, << >>, << >>, "outlier_detection",
                                         { <<"total_rows", Len(df.rows)>> }), TRUE) }
        ELSE IF method = "zscore" THEN { DetectZscore(v, df) }
        ELSE IF method = "iqr" THEN { DetectIqr(v, df) }
        ELSE { DetectPercentile(v, df) }

(***************************************************************************)
(* fintran/validation/protocols.py: Validator.validate, by the class of    *)
(* the validator.                                                          *)
(***************************************************************************)
validate(v, df) ==
    CASE v.cls = "PositiveAmountsValidator" -> PositiveAmountsValidate(v, df)
      [] v.cls = "CurrencyConsistencyValidator" -> CurrencyConsistencyValidate(v, df)
      [] v.cls = "DateRangeValidator" -> DateRangeValidate(v, df)
      [] v.cls = "DuplicateDetectionValidator" -> DuplicateDetectionValidate(v, df)
      [] v.cls = "MissingValueDetectionValidator" -> MissingValueDetectionValidate(v, df)
      [] v.cls = "OutlierDetectionValidator" -> OutlierDetectionValidate(v, df)

(***************************************************************************)
(* Inputs of the built-in validators.                                      *)
(***************************************************************************)
Row(account, amount, currency, date, description) ==
    [account |-> account, amount |-> amount, currency |-> currency, date |-> date,
     description |-> description, reference |-> None]

\* The rows: accounts 40 and 10, amounts below, at and above zero, two
\* currencies, three dates, an empty description, and nulls.
CheckRows ==
    { Row(Some(<< "4", "0" >>), Some(5), Some("USD"), Some(1), Some("memo")),
      Row(Some(<< "4", "0" >>), Some(0), Some("EUR"), Some(2), Some("")),
      Row(Some(<< "4", "0" >>), Some(0 - 1), Some("USD"), Some(3), None),
      Row(Some(<< "1", "0" >>), Some(6), Some("USD"), Some(2), Some("memo")),
      Row(Some(<< "1", "0" >>), Some(0 - 1), Some("EUR"), Some(1), Some("memo")),
      Row(None, None, None, None, None) }

\* The sets of columns a dataset may lack.
DroppedColumns ==
    { {"account"}, {"amount"}, {"currency"}, {"date"}, {"account", "description"} }

\* Datasets of 10 to 12 rows: 10 or 11 rows with the same account and
\* amount, alone or after a row that differs from them.
LongDatasets ==
    LET same == Row(Some(<< "4", "0" >>), Some(5), Some("USD"), Some(1), Some("memo"))
        other == Row(Some(<< "1", "0" >>), Some(6), Some("USD"), Some(2), Some("memo"))
    IN  { [columns |-> Columns(IR_SCHEMA), rows |-> lead \o [k \in 1..n |-> same]] :
            lead \in { << >>, << other >> }, n \in {10, 11} }

\* The datasets: with every column of the IR and 0..MaxRows rows or 10 to
\* 12 rows, and lacking columns, with at most one row.
Datasets ==
    { [columns |-> Columns(IR_SCHEMA), rows |-> rows] :
        rows \in SeqsUpTo(CheckRows, MaxRows) }
      \cup LongDatasets
      \cup { [columns |-> Columns(IR_SCHEMA) \ dropped, rows |-> rows] :
               dropped \in DroppedColumns, rows \in SeqsUpTo(CheckRows, 1) }

\* The validators: each class of the registry, in the configurations that
\* make its branches differ.
BuiltinValidators ==
    { Construct(c[1], c[2]).validator[1] :
        c \in { <<"PositiveAmountsValidator", [account_patterns |-> << << "^", "4" >> >>]>>,
                <<"PositiveAmountsValidator",
                  [account_patterns |-> << << "^", "1" >>, << "4" >> >>]>>,
                <<"CurrencyConsistencyValidator", << >> >>,
                <<"CurrencyConsistencyValidator",
                  [group_by |-> Some(<< "account", "description" >>)]>>,
                <<"CurrencyConsistencyValidator", [group_by |-> None]>>,
                <<"DateRangeValidator", [min_date |-> 2]>>,
                <<"DateRangeValidator", [min_date |-> 2, max_date |-> 2]>>,
                <<"DuplicateDetectionValidator", [fields |-> << "account", "amount" >>]>>,
                <<"DuplicateDetectionValidator",
                  [fields |-> << "account" >>, mode |-> "fuzzy"]>>,
                <<"MissingValueDetectionValidator",
                  [fields |-> << "account", "description" >>]>>,
                <<"OutlierDetectionValidator", [threshold |-> 1]>>,
                <<"OutlierDetectionValidator", [method |-> "iqr", threshold |-> 1]>>,
                <<"OutlierDetectionValidator",
                  [method |-> "percentile", threshold |-> 50]>>,
                <<"OutlierDetectionValidator",
                  [method |-> "percentile", threshold |-> 80]>> } }

InitCheck ==
    /\ ck_pc = "first"
    /\ ck_validator \in { Some(v) : v \in BuiltinValidators }
    /\ ck_df \in { Some(df) : df \in Datasets }
    /\ ck_first = None
    /\ ck_second = None

\* result1 = validator.validate(df)
ValidateFirst ==
    /\ ck_pc = "first"
    /\ \E outcome \in validate(ck_validator[1], ck_df[1]) :
         ck_first' = Some(outcome)
    /\ ck_pc' = "second"
    /\ UNCHANGED << ck_validator, ck_df, ck_second >>
    /\ UNCHANGED notCheck

\* result2 = validator.validate(df), on the same objects
ValidateSecond ==
    /\ ck_pc = "second"
    /\ \E outcome \in validate(ck_validator[1], ck_df[1]) :
         ck_second' = Some(outcome)
    /\ ck_pc' = "done"
    /\ UNCHANGED << ck_validator, ck_df, ck_first >>
    /\ UNCHANGED notCheck

NextCheck ==
    \/ ValidateFirst
    \/ ValidateSecond

CheckInit ==
    /\ IdlePipeline /\ IdleRun /\ IdleResult /\ IdleTransform
    /\ IdleParse /\ IdleReport /\ InitCheck /\ IdleConvert /\ IdleBatch

SpecCheck == CheckInit /\ [][NextCheck]_vars

(***************************************************************************)
(* Properties of the built-in validators.                                  *)
(***************************************************************************)
\* The validator is one of the three business validators.
IsBusinessValidator ==
    ck_validator[1].cls \in {"PositiveAmountsValidator", "CurrencyConsistencyValidator",
                             "DateRangeValidator"}

\* The columns the business validator needs.
RequiredColumns ==
    LET v == ck_validator[1]
    IN  CASE v.cls = "PositiveAmountsValidator" -> {"account", "amount"}
          [] v.cls = "DateRangeValidator" -> {"date"}
          [] v.cls = "CurrencyConsistencyValidator" ->
               {"currency"} \cup
               (IF "group_by" \notin DOMAIN v.params THEN {"account"}
                ELSE IF v.params.group_by = None THEN {}
                ELSE { v.params.group_by[1][k] : k \in 1..Len(v.params.group_by[1]) })
          [] OTHER -> {}

\* C17: when a column a business validator needs is absent, validate
\* raises nothing and returns, without looking at a row, a failing Result
\* of that validator whose errors are exactly one error, which names an
\* absent column.
C17_MissingColumnSoleError ==
    (ck_first # None /\ IsBusinessValidator /\ RequiredColumns \ ck_df[1].columns # {})
      => /\ ck_first[1].raised = None
         /\ ck_first[1].result # None
         /\ ~ck_first[1].scanned
         /\ ~ck_first[1].result[1].is_valid
         /\ ck_first[1].result[1].validator_name = ck_validator[1].cls
         /\ Len(ck_first[1].result[1].errors) = 1
         /\ ck_first[1].result[1].errors[1].field \in RequiredColumns \ ck_df[1].columns

\* The validator is a data-quality validator (duplicates in equality mode,
\* missing values, outliers) and the dataset has the columns it is
\* configured with.
QualityValidatorWithColumns ==
    LET v == ck_validator[1]
        columns == ck_df[1].columns
    IN  \/ /\ v.cls = "DuplicateDetectionValidator"
           /\ ("mode" \in DOMAIN v.params => v.params.mode = "exact")
           /\ \A k \in 1..Len(v.params.fields) : v.params.fields[k] \in columns
        \/ /\ v.cls = "MissingValueDetectionValidator"
           /\ \A k \in 1..Len(v.params.fields) : v.params.fields[k] \in columns
        \/ /\ v.cls = "OutlierDetectionValidator"
           /\ "amount" \in columns

\* C18: on a dataset that has the configured columns, the duplicate
\* (equality mode), missing-value and outlier validators return a Result
\* with is_valid true and no errors, whatever they found; what they found
\* is in the warnings.
C18_FindingsAreWarnings ==
    (ck_first # None /\ QualityValidatorWithColumns)
      => /\ ck_first[1].result # None
         /\ ck_first[1].result[1].is_valid
         /\ ck_first[1].result[1].errors = << >>

\* The rows of the dataset whose account matches a pattern of the
\* validator and whose amount is zero or less.
OffendingRows ==
    LET v == ck_validator[1]
        rows == ck_df[1].rows
    IN  { j \in 1..Len(rows) :
            /\ rows[j].account # None
            /\ \E k \in 1..Len(v.params.account_patterns) :
                 str_contains(rows[j].account[1], v.params.account_patterns[k])
            /\ rows[j].amount # None
            /\ rows[j].amount[1] <= 0 }

\* C19: on a dataset with the account and amount columns, the
\* sign-constraint validator returns is_valid true exactly when no row
\* whose account matches a pattern has an amount of zero or less; a
\* failing Result has exactly one error for each such row, and a passing
\* one has none.
C19_PositiveAmounts ==
    ( /\ ck_first # None
      /\ ck_validator[1].cls = "PositiveAmountsValidator"
      /\ {"account", "amount"} \subseteq ck_df[1].columns )
      => /\ ck_first[1].result # None
         /\ ck_first[1].result[1].is_valid <=> OffendingRows = {}
         /\ Len(ck_first[1].result[1].errors) = Cardinality(OffendingRows)
         /\ \A j \in OffendingRows :
              \E k \in 1..Len(ck_first[1].result[1].errors) :
                ck_first[1].result[1].errors[k].row = j - 1

\* Two rows offend, one of them with an amount of exactly zero, and a row
\* that does not match has a negative amount.
C19_Witness ==
    /\ ck_first # None
    /\ ck_validator[1].cls = "PositiveAmountsValidator"
    /\ {"account", "amount"} \subseteq ck_df[1].columns
    /\ Cardinality(OffendingRows) = 2
    /\ \E j \in OffendingRows : ck_df[1].rows[j].amount[1] = 0
    /\ \E j \in 1..Len(ck_df[1].rows) :
         /\ j \notin OffendingRows
         /\ ck_df[1].rows[j].amount # None
         /\ ck_df[1].rows[j].amount[1] < 0
    /\ ~ck_first[1].result[1].is_valid

\* The set of the elements of a list.
Elements(seq) == { seq[k] : k \in 1..Len(seq) }

\* C20: two calls of validate of a built-in validator on the same dataset
\* that return Results return the same is_valid, the same set of errors,
\* the same set of warnings and the same validator_name.
C20_Determinism ==
    (ck_pc = "done" /\ ck_first[1].result # None /\ ck_second[1].result # None)
      => LET r1 == ck_first[1].result[1]
             r2 == ck_second[1].result[1]
         IN  /\ r1.is_valid = r2.is_valid
             /\ Elements(r1.errors) = Elements(r2.errors)
             /\ Elements(r1.warnings) = Elements(r2.warnings)
             /\ r1.validator_name = r2.validator_name

\* The two calls of the grouped currency check have reported the same two
\* groups in different orders.
C20_Witness ==
    /\ ck_pc = "done"
    /\ ck_validator[1].cls = "CurrencyConsistencyValidator"
    /\ ck_first[1].result # None
    /\ ck_second[1].result # None
    /\ ~ck_first[1].result[1].is_valid
    /\ Len(ck_first[1].result[1].errors) = 2
    /\ ck_first[1].result[1].errors # ck_second[1].result[1].errors

(***************************************************************************)
(* The callers' datasets: a built-in validator's validate,                 *)
(* ValidationPipeline.run and ValidatingTransform.transform side by side.  *)
(***************************************************************************)
NextFrame ==
    \/ NextTransform
    \/ NextCheck

FrameInit == TransformInit \/ CheckInit

SpecFrame == FrameInit /\ [][NextFrame]_vars

\* C21: no step of validate of a built-in validator, of
\* ValidationPipeline.run or of ValidatingTransform.transform changes the
\* dataset it was given: its content, columns, schema and attached report
\* metadata, as its caller sees them, stay what they were.
C21_ArgumentUnchanged ==
    [][ck_df' = ck_df /\ vt_df' = vt_df]_vars

\* transform has returned a frame that carries one report more than the
\* frame it was given, which carried a report already.
C21_Witness ==
    /\ vt_pc = "returned"
    /\ vt_df.validation_metadata # None
    /\ vt_out[1].validation_metadata # vt_df.validation_metadata
    /\ vt_df = vt_runs[1]

(***************************************************************************)
(* fintran/cli: the convert command.                                       *)
(***************************************************************************)
\* exit_codes.py, class ExitCode.
ExitCode ==
    [SUCCESS |-> 0, UNEXPECTED_ERROR |-> 1, VALIDATION_ERROR |-> 2, READER_ERROR |-> 3,
     WRITER_ERROR |-> 4, TRANSFORM_ERROR |-> 5, CONFIG_ERROR |-> 6]

\* registry.py: the names registered by the application, and for a
\* transform the class registered under the name.
READERS == {"csv", "json"}

WRITERS == {"parquet", "csv"}

TRANSFORMS == { <<"normalize", "TypeA">>, <<"filter", "TypeB">> }

\* get_transform(name): the class instantiated; None when KeyError is raised.
get_transform(name) ==
    IF \E p \in TRANSFORMS : p[1] = name
    THEN Some((CHOOSE p \in TRANSFORMS : p[1] = name)[2])
    ELSE None

\* path.suffix.lower() of the paths of the model.
Suffix(path) ==
    CASE path = "in.csv" -> ".csv"
      [] path = "out.parquet" -> ".parquet"
      [] OTHER -> ".dat"

\* infer_reader(path): the reader type; None when ValueError is raised.
infer_reader(path) ==
    CASE Suffix(path) = ".csv" -> Some("csv")
      [] Suffix(path) = ".json" -> Some("json")
      [] Suffix(path) \in {".parquet", ".pq"} -> Some("parquet")
      [] Suffix(path) \in {".xlsx", ".xls"} -> Some("excel")
      [] Suffix(path) = ".journal" -> Some("hledger")
      [] OTHER -> None

\* infer_writer(path): the writer type; None when ValueError is raised.
infer_writer(path) ==
    CASE Suffix(path) \in {".duckdb", ".db"} -> Some("duckdb")
      [] OTHER -> infer_reader(path)

\* load_config(path) on a configuration file: the dictionary, or the
\* ConfigError raised for a file that is missing or does not parse.  A
\* dictionary is a record of optional values, None for a key that is absent.
load_config(file) ==
    IF file.loads
    THEN [raised |-> None, value |-> Some(file.content)]
    ELSE [raised |-> Some([cls |-> "ConfigError", ctx |-> EmptyContext, cause |-> None,
                           by |-> "load_config"]),
          value |-> None]

\* merge_config(base, **overrides): every override that is not None replaces
\* the value of its key (a list for transforms, anything for another key).
merge_config(base, overrides) ==
    [key \in DOMAIN base |-> IF overrides[key] # None THEN overrides[key] ELSE base[key]]

\* Lines 176-177: if transform is None: transform = []
DefaultTransform(transform) == IF transform = None THEN Some(<< >>) ELSE transform

\* The except clauses of convert, lines 253-273: the exit code returned for
\* an exception raised in the body.
ConvertHandler(e) ==
    IF IsInstance(e.cls, "ValidationError") THEN ExitCode.VALIDATION_ERROR
    ELSE IF IsInstance(e.cls, "ReaderError") THEN ExitCode.READER_ERROR
    ELSE IF IsInstance(e.cls, "WriterError") THEN ExitCode.WRITER_ERROR
    ELSE IF IsInstance(e.cls, "TransformError") THEN ExitCode.TRANSFORM_ERROR
    ELSE IF IsInstance(e.cls, "ConfigError") THEN ExitCode.CONFIG_ERROR
    ELSE IF IsInstance(e.cls, "PipelineError") THEN ExitCode.UNEXPECTED_ERROR
    ELSE ExitCode.UNEXPECTED_ERROR

\* The configuration files: one that does not load, and documents with and
\* without a reader and a list of transforms.
ConfigFiles ==
    { [loads |-> FALSE, content |-> [reader |-> None, writer |-> None, transforms |-> None]] }
      \cup { [loads |-> TRUE,
              content |-> [reader |-> r, writer |-> None, transforms |-> t]] :
                r \in {None, Some("json")},
                t \in {None, Some(<< "filter" >>), Some(<< "filter", "normalize" >>)} }

\* The calls of convert: the arguments, whether the input file exists and
\* whether the output directory can be created.
ConvertArgs ==
    [input_exists : BOOLEAN,
     mkdir_ok : BOOLEAN,
     input_path : {"in.csv", "in.dat"},
     output_path : {"out.parquet", "out.dat"},
     reader : {None, Some("csv"), Some("bogus")},
     writer : {None, Some("parquet")},
     transform : {None, Some(<< >>), Some(<< "normalize" >>), Some(<< "bogus" >>)},
     config : {None} \cup { Some(f) : f \in ConfigFiles },
     dry_run : BOOLEAN]

\* Lines 180-215 of convert, up to the pipeline: the exit code returned, if
\* one is, with the exception caught, the merged cfg and the components
\* resolved.
ConvertSetup(a) ==
    LET loaded == IF a.config = None
                  THEN [raised |-> None,
                        value |-> Some([reader |-> None, writer |-> None,
                                        transforms |-> None])]
                  ELSE load_config(a.config[1])
        cfg == merge_config(loaded.value[1],
                            [reader |-> a.reader, writer |-> a.writer,
                             transforms |-> DefaultTransform(a.transform)])
        reader_type == IF cfg.reader # None THEN cfg.reader ELSE infer_reader(a.input_path)
        writer_type == IF cfg.writer # None THEN cfg.writer ELSE infer_writer(a.output_path)
        names == IF cfg.transforms = None THEN << >> ELSE cfg.transforms[1]
        transform_instances == [k \in 1..Len(names) |-> get_transform(names[k])]
        Exit(code, e) == [exit |-> Some(code), caught |-> e, cfg |-> None, used |-> None]
    IN  IF ~a.input_exists THEN Exit(ExitCode.UNEXPECTED_ERROR, None)
        ELSE IF loaded.raised # None
        THEN Exit(ConvertHandler(loaded.raised[1]), loaded.raised)
        ELSE IF reader_type = None \/ writer_type = None
        THEN Exit(ExitCode.CONFIG_ERROR, None)
        ELSE IF \/ reader_type[1] \notin READERS
                \/ writer_type[1] \notin WRITERS
                \/ \E k \in 1..Len(names) : transform_instances[k] = None
        THEN Exit(ExitCode.CONFIG_ERROR, None)
        ELSE IF ~a.mkdir_ok THEN Exit(ExitCode.UNEXPECTED_ERROR, None)
        ELSE [exit |-> None, caught |-> None, cfg |-> Some(cfg),
              used |-> Some([reader |-> reader_type[1], writer |-> writer_type[1],
                             names |-> names,
                             transforms |-> [k \in 1..Len(names) |->
                                               transform_instances[k][1]]])]

\* An except clause of convert has caught e: the exit code is returned.
ConvertCatch(e) ==
    /\ cv_caught' = Some(e)
    /\ cv_exit' = Some(ConvertHandler(e))
    /\ cv_pc' = "exited"

InitConvert ==
    /\ cv_pc = "start"
    /\ cv_args = None
    /\ cv_cfg = None
    /\ cv_used = None
    /\ cv_ir = None
    /\ cv_applied = << >>
    /\ cv_caught = None
    /\ cv_exit = None

\* convert up to line 215; without dry_run, the call of execute_pipeline.
ConvertStart ==
    /\ cv_pc = "start"
    /\ \E a \in ConvertArgs :
         LET setup == ConvertSetup(a) IN
           /\ cv_args' = Some(a)
           /\ cv_cfg' = setup.cfg
           /\ cv_used' = setup.used
           /\ cv_caught' = setup.caught
           /\ cv_exit' = setup.exit
           /\ IF setup.exit # None
              THEN /\ cv_pc' = "exited"
                   /\ UNCHANGED pipelineVars
              ELSE IF a.dry_run
              THEN /\ cv_pc' = "dry_read"
                   /\ UNCHANGED pipelineVars
              ELSE /\ cv_pc' = "pipeline"
                   /\ pc' = "read"
                   /\ transforms' = setup.used[1].transforms
                   /\ input_path' = a.input_path
                   /\ output_path' = a.output_path
                   /\ UNCHANGED << ir, i, trace, delivered, nextId >>
    /\ UNCHANGED << cv_ir, cv_applied >>
    /\ UNCHANGED notConvert

\* Dry run, lines 224-226: ir = reader_instance.read(...); ir = validate_ir(ir)
DryRead ==
    /\ cv_pc = "dry_read"
    /\ \/ \E df \in NewObjects(1) :
            LET r == validate_ir(df) IN
              IF r.raised # None
              THEN ConvertCatch(r.raised[1]) /\ UNCHANGED cv_ir
              ELSE /\ cv_ir' = r.value
                   /\ cv_pc' = "dry_transform"
                   /\ UNCHANGED << cv_caught, cv_exit >>
       \/ \E e \in RaisedBy("reader") : ConvertCatch(e) /\ UNCHANGED cv_ir
    /\ UNCHANGED << cv_args, cv_cfg, cv_used, cv_applied >>
    /\ UNCHANGED << pipelineVars, notConvert >>

\* Dry run, lines 229-231, one iteration: ir = transform_instance.transform(ir);
\* ir = validate_ir(ir).  Nothing compares the identities here.
DryTransform ==
    /\ cv_pc = "dry_transform"
    /\ Len(cv_applied) < Len(cv_used[1].transforms)
    /\ cv_applied' = Append(cv_applied, cv_used[1].transforms[Len(cv_applied) + 1])
    /\ \/ \E df \in NewObjects(cv_ir[1].id + 1) \cup { cv_ir[1] } :
            LET r == validate_ir(df) IN
              IF r.raised # None
              THEN ConvertCatch(r.raised[1]) /\ UNCHANGED cv_ir
              ELSE /\ cv_ir' = r.value
                   /\ UNCHANGED << cv_pc, cv_caught, cv_exit >>
       \/ \E e \in RaisedBy("transform") : ConvertCatch(e) /\ UNCHANGED cv_ir
    /\ UNCHANGED << cv_args, cv_cfg, cv_used >>
    /\ UNCHANGED << pipelineVars, notConvert >>

\* Dry run, lines 234-236 and 251: the loop is over, SUCCESS is returned.
DryReturn ==
    /\ cv_pc = "dry_transform"
    /\ Len(cv_applied) = Len(cv_used[1].transforms)
    /\ cv_exit' = Some(ExitCode.SUCCESS)
    /\ cv_pc' = "exited"
    /\ UNCHANGED << cv_args, cv_cfg, cv_used, cv_ir, cv_applied, cv_caught >>
    /\ UNCHANGED << pipelineVars, notConvert >>

\* Lines 239-251 and the except clauses: execute_pipeline has returned or
\* raised.
ConvertReturn ==
    /\ cv_pc = "pipeline"
    /\ pc \in {"returned", "raised"}
    /\ IF pc = "raised"
       THEN ConvertCatch(delivered[1])
       ELSE /\ cv_exit' = Some(ExitCode.SUCCESS)
            /\ cv_pc' = "exited"
            /\ UNCHANGED cv_caught
    /\ UNCHANGED << cv_args, cv_cfg, cv_used, cv_ir, cv_applied >>
    /\ UNCHANGED << pipelineVars, notConvert >>

NextConvert ==
    \/ ConvertStart
    \/ DryRead
    \/ DryTransform
    \/ DryReturn
    \/ Read
    \/ ValidateReaderOutput
    \/ ApplyTransform
    \/ ValidateFinalIr
    \/ Write
    \/ ConvertReturn

ConvertInit ==
    /\ IdlePipeline /\ IdleRun /\ IdleResult /\ IdleTransform
    /\ IdleParse /\ IdleReport /\ IdleCheck /\ IdleBatch
    /\ InitConvert

SpecConvert == ConvertInit /\ [][NextConvert]_vars

(***************************************************************************)
(* Properties of the convert command.                                      *)
(***************************************************************************)
\* The run of convert failed because validate_ir rejected a dataset with
\* its ValidationError: in the dry run, or in step 2 or 4 of
\* execute_pipeline.
SchemaViolationEndedRun ==
    /\ cv_exit # None
    /\ \/ /\ cv_args[1].dry_run
          /\ cv_caught # None
          /\ cv_caught[1].cls = "ValidationError"
          /\ cv_caught[1].by = "validate_ir"
       \/ /\ ~cv_args[1].dry_run
          /\ pc = "raised"
          /\ LastEntry.step \in {"validate_reader_output", "validate_final_ir"}
          /\ LastEntry.raised # None
          /\ LastEntry.raised[1].cls = "ValidationError"

\* C22: whenever convert ends because a dataset violates the IR schema, on
\* the reader's output or after the transforms, with or without dry_run,
\* the exit code is VALIDATION_ERROR (2).
C22_SchemaViolationExitCode ==
    SchemaViolationEndedRun => cv_exit[1] = ExitCode.VALIDATION_ERROR

\* The dictionary of the configuration file of the call; no file is an
\* empty dictionary.
FileConfig ==
    IF cv_args[1].config = None
    THEN [reader |-> None, writer |-> None, transforms |-> None]
    ELSE cv_args[1].config[1].content

\* C24: once convert has resolved its components, the reader, the writer
\* and the transforms are those given on the command line, and for a
\* setting not given on the command line those of the configuration file;
\* execute_pipeline receives as many transforms as were so chosen.
C24_CommandLineOverConfigFile ==
    cv_used # None =>
      LET a == cv_args[1]
          used == cv_used[1]
      IN  /\ a.reader # None => used.reader = a.reader[1]
          /\ (a.reader = None /\ FileConfig.reader # None) => used.reader = FileConfig.reader[1]
          /\ a.writer # None => used.writer = a.writer[1]
          /\ (a.writer = None /\ FileConfig.writer # None) => used.writer = FileConfig.writer[1]
          /\ a.transform # None => used.names = a.transform[1]
          /\ (a.transform = None /\ FileConfig.transforms # None)
                => used.names = FileConfig.transforms[1]
          /\ cv_pc = "pipeline" => Len(transforms) = Len(used.names)

(***************************************************************************)
(* fintran/cli: the batch command.                                         *)
(***************************************************************************)
MaxFiles == 3

\* The files the glob may match, in the order it lists them.
MatchedFiles(n) == [k \in 1..n |-> "file" \o ToString(k)]

\* What a call of convert hands back to batch: one of the exit codes, or an
\* exception (raised |-> TRUE, no code).
ConvertOutcomes ==
    { [raised |-> FALSE, code |-> Some(ExitCode[name])] : name \in DOMAIN ExitCode }
      \cup { [raised |-> TRUE, code |-> None] }

\* Lines 608-621: results after the call of convert for file; the error
\* entry of an exception has no exit code.
CountOutcome(res, file, outcome) ==
    IF ~outcome.raised /\ outcome.code[1] = ExitCode.SUCCESS
    THEN [res EXCEPT !.success = @ + 1]
    ELSE [res EXCEPT !.failed = @ + 1,
                     !.errors = Append(@, [file |-> file, code |-> outcome.code])]

InitBatch ==
    /\ bt_pc = "start"
    /\ bt_files = << >>
    /\ bt_k = 0
    /\ bt_attempts = << >>
    /\ bt_results = None
    /\ bt_exit = None

\* Lines 540-566: the directory checks, the glob, output_dir.mkdir and the
\* empty results.  An exception of mkdir reaches the outer except clause.
BatchStart ==
    /\ bt_pc = "start"
    /\ \E is_dir \in BOOLEAN, mkdir_ok \in BOOLEAN, n \in 0..MaxFiles :
         IF ~is_dir
         THEN /\ bt_exit' = Some(ExitCode.UNEXPECTED_ERROR)
              /\ bt_pc' = "exited"
              /\ UNCHANGED << bt_files, bt_results >>
         ELSE /\ bt_files' = MatchedFiles(n)
              /\ IF n = 0 \/ ~mkdir_ok
                 THEN /\ bt_exit' = Some(ExitCode.UNEXPECTED_ERROR)
                      /\ bt_pc' = "exited"
                      /\ UNCHANGED bt_results
                 ELSE /\ bt_results' = Some([success |-> 0, failed |-> 0, errors |-> << >>])
                      /\ bt_pc' = "loop"
                      /\ UNCHANGED bt_exit
    /\ UNCHANGED << bt_k, bt_attempts >>
    /\ UNCHANGED notBatch

\* Lines 568-621, one iteration: the output path, output_file.parent.mkdir,
\* which is outside the inner try, and the call of convert inside it.
BatchFile ==
    /\ bt_pc = "loop"
    /\ bt_k < Len(bt_files)
    /\ \E mkdir_ok \in BOOLEAN :
         IF ~mkdir_ok
         THEN /\ bt_exit' = Some(ExitCode.UNEXPECTED_ERROR)
              /\ bt_pc' = "exited"
              /\ UNCHANGED << bt_k, bt_attempts, bt_results >>
         ELSE \E outcome \in ConvertOutcomes :
              /\ bt_attempts' = Append(bt_attempts, [file |-> bt_files[bt_k + 1],
                                                     outcome |-> outcome])
              /\ bt_results' = Some(CountOutcome(bt_results[1], bt_files[bt_k + 1], outcome))
              /\ bt_k' = bt_k + 1
              /\ UNCHANGED << bt_pc, bt_exit >>
    /\ UNCHANGED bt_files
    /\ UNCHANGED notBatch

\* Lines 624-636: the summary and the exit code.
BatchReturn ==
    /\ bt_pc = "loop"
    /\ bt_k = Len(bt_files)
    /\ bt_exit' = Some(IF bt_results[1].failed = 0 THEN ExitCode.SUCCESS
                       ELSE ExitCode.UNEXPECTED_ERROR)
    /\ bt_pc' = "exited"
    /\ UNCHANGED << bt_files, bt_k, bt_attempts, bt_results >>
    /\ UNCHANGED notBatch

NextBatch ==
    \/ BatchStart
    \/ BatchFile
    \/ BatchReturn

BatchInit ==
    /\ IdlePipeline /\ IdleRun /\ IdleResult /\ IdleTransform
    /\ IdleParse /\ IdleReport /\ IdleCheck /\ IdleConvert
    /\ InitBatch

SpecBatch == BatchInit /\ [][NextBatch]_vars

\* C23: when batch has ended after its glob matched files, convert was
\* called once for every matched file, in order, whatever the earlier
\* calls gave; success + failed is the number of matched files, and the
\* exit code is SUCCESS exactly when failed is 0.
C23_EveryFileOnce ==
    (bt_pc = "exited" /\ bt_files # << >>)
      => /\ [k \in 1..Len(bt_attempts) |-> bt_attempts[k].file] = bt_files
         /\ bt_results # None
         /\ bt_results[1].success + bt_results[1].failed = Len(bt_files)
         /\ bt_exit[1] = ExitCode.SUCCESS <=> bt_results[1].failed = 0

(***************************************************************************)
(* Properties of the data-quality validators.                              *)
(***************************************************************************)
\* The rows of the dataset whose values in the key columns of the
\* validator are those of another row.
RecurringRows ==
    LET fields == ck_validator[1].params.fields
        rows == ck_df[1].rows
    IN  { j \in 1..Len(rows) :
            \E n \in 1..Len(rows) :
              /\ n # j
              /\ \A k \in 1..Len(fields) : rows[n][fields[k]] = rows[j][fields[k]] }

\* C25: in equality mode, on a dataset that has the key columns, the
\* duplicate validator warns exactly when some row's key tuple recurs; it
\* then emits one warning whose count is the number of all such rows, first
\* occurrences included (so never 1), which lists in order the 0-based
\* indices of the first 10 of them at most and carries the truncation
\* marker exactly when there are more than 10.
C25_DuplicatesWarning ==
    ( /\ ck_first # None
      /\ ck_validator[1].cls = "DuplicateDetectionValidator"
      /\ "mode" \notin DOMAIN ck_validator[1].params
      /\ \A k \in 1..Len(ck_validator[1].params.fields) :
           ck_validator[1].params.fields[k] \in ck_df[1].columns )
      => /\ ck_first[1].result # None
         /\ LET warnings == ck_first[1].result[1].warnings
                listed == warnings[1].rows
            IN  IF RecurringRows = {} THEN warnings = << >>
                ELSE /\ Len(warnings) = 1
                     /\ warnings[1].count = Cardinality(RecurringRows)
                     /\ warnings[1].count # 1
                     /\ Len(listed) <= 10
                     /\ Len(listed) = 10 \/ Len(listed) = Cardinality(RecurringRows)
                     /\ \A k \in 1..Len(listed) : listed[k] + 1 \in RecurringRows
                     /\ \A k \in 1..(Len(listed) - 1) : listed[k] < listed[k + 1]
                     /\ \A j \in RecurringRows :
                          \/ \E k \in 1..Len(listed) : listed[k] = j - 1
                          \/ \A k \in 1..Len(listed) : listed[k] < j - 1
                     /\ warnings[1].ellipsis <=> Cardinality(RecurringRows) > 10

\* Eleven rows recur after a row that does not: ten indices are listed,
\* from 1 on, with the truncation marker.
C25_Witness ==
    /\ ck_first # None
    /\ ck_validator[1].cls = "DuplicateDetectionValidator"
    /\ "mode" \notin DOMAIN ck_validator[1].params
    /\ Cardinality(RecurringRows) = 11
    /\ Len(ck_df[1].rows) = 12
    /\ ck_first[1].result[1].warnings[1].rows = [k \in 1..10 |-> k]
    /\ ck_first[1].result[1].warnings[1].ellipsis

\* The outlier validator with the percentile method has returned a Result
\* for a dataset that has the amount column.
PercentileChecked ==
    /\ ck_first # None
    /\ ck_validator[1].cls = "OutlierDetectionValidator"
    /\ "method" \in DOMAIN ck_validator[1].params
    /\ ck_validator[1].params.method = "percentile"
    /\ "amount" \in ck_df[1].columns
    /\ ck_first[1].result # None

\* The rows whose amount lies below the lo-th or above the hi-th percentile
\* of the amounts of the dataset, percentiles counted in halves (lo = 5 is
\* the 2.5th percentile); a dataset of fewer than two rows has none.
OutsideBand(lo, hi) ==
    LET rows == ck_df[1].rows
        xs == Amounts(ck_df[1])
    IN  IF Len(rows) < 2 \/ xs = << >> THEN {}
        ELSE { j \in 1..Len(rows) :
                 /\ rows[j].amount # None
                 /\ \/ rows[j].amount[1] < Quantile(xs, lo)[1]
                    \/ rows[j].amount[1] > Quantile(xs, hi)[1] }

\* The Result reports exactly the rows of flagged: their number in the
\* summary, and each of them (at most the first 10) in a warning of its own.
ReportsOutliers(flagged) ==
    LET warnings == ck_first[1].result[1].warnings
        listed == { warnings[k].row + 1 : k \in { n \in 1..Len(warnings) :
                                                   warnings[n].text = "Row" } }
    IN  IF flagged = {} THEN warnings = << >>
        ELSE /\ warnings # << >>
             /\ warnings[1].count = Cardinality(flagged)
             /\ listed \subseteq flagged
             /\ Cardinality(flagged) <= 10 => listed = flagged

\* C26 as stated: with threshold t the percentile method flags exactly the
\* rows below the (t/2)-th or above the (100 - t/2)-th percentile.
C26_PercentileBandAsStated ==
    PercentileChecked
      => ReportsOutliers(OutsideBand(ck_validator[1].params.threshold,
                                     200 - ck_validator[1].params.threshold))

\* C26, amended: with threshold t the percentile method flags exactly the
\* rows below the ((100 - t)/2)-th or above the (100 - (100 - t)/2)-th
\* percentile, the band that holds the central t percent.
C26_PercentileBand ==
    PercentileChecked
      => ReportsOutliers(OutsideBand(100 - ck_validator[1].params.threshold,
                                     100 + ck_validator[1].params.threshold))

\* With threshold 80 a row above the 90th percentile is flagged, and the
\* rows outside the 40th to 60th percentiles are other rows.
C26_Witness ==
    /\ PercentileChecked
    /\ ck_validator[1].params.threshold = 80
    /\ OutsideBand(20, 180) # {}
    /\ ck_first[1].result[1].warnings # << >>

(***************************************************************************)
(* Properties of the metadata attached by ValidatingTransform.             *)
(***************************************************************************)
\* C29: when transform attached its report under metadata_key, the reports
\* retrievable from the returned frame under every other key are the ones
\* retrievable from the frame it was given.
C29_OtherKeysKept ==
    (vt_pc = "returned" /\ vt_out # None)
      => \A k2 \in MetadataKeys \ { metadata_key } :
           get_validation_reports(vt_out[1], k2) = get_validation_reports(vt_df, k2)

(***************************************************************************)
(* Properties of the severity of a declarative entry.                      *)
(***************************************************************************)
\* C30: in the pipeline parse_config returned, the validator built from an
\* entry declared with severity "warning" returns a valid Result without
\* errors on every dataset, so that it neither counts as failed in the
\* Report nor stops a fail-fast run.
C30_WarningSeverityNeverFails ==
    pr_pc = "returned"
      => \A j \in 1..Len(pr_out[1].validators) :
           LET spec == config.validators.items[j]
           IN  ("severity" \in spec.keys /\ spec.severity = "warning")
                 => \A rows \in SeqsUpTo(CheckRows, 1) :
                      \A outcome \in validate(pr_out[1].validators[j],
                                              [columns |-> Columns(IR_SCHEMA),
                                               rows |-> rows]) :
                        /\ outcome.result # None
                        /\ outcome.result[1].is_valid
                        /\ outcome.result[1].errors = << >>

(***************************************************************************)
(* execute_pipeline over a transform list that holds ValidatingTransforms, *)
(* all constructed with the same fail_on_error and metadata_key.           *)
(***************************************************************************)
StageTypes == TransformTypes \cup {"ValidatingTransform"}

\* What self.pipeline.run(df) may do inside a ValidatingTransform: return
\* the report of one validator that passed or failed, at one of two
\* instants, or let the exception of a validator through.
RunOutcomes ==
    { [report |-> Some(create_report(<< ValidationResult(v, e, << >>, "validator_1", {}) >>,
                                     now)),
       raised |-> None] :
        <<v, e>> \in { <<TRUE, << >> >>, <<FALSE, << "error" >> >> }, now \in Clock }
      \cup { [report |-> None, raised |-> Some(Raised("ValueError", None, "validator"))] }

\* ValidatingTransform.transform, lines 83-96, given what the run did: the
\* frame returned or the exception raised.  On an object that is not a
\* DataFrame the clone of attach_validation_report raises AttributeError.
transform(self, df, run, fresh) ==
    IF run.raised # None
    THEN [raised |-> run.raised, value |-> None]
    ELSE IF MustFail(self.fail_on_error, run.report[1])
    THEN [raised |-> Some(ValidationFailed(run.report[1])), value |-> None]
    ELSE IF ~df.isdf
    THEN [raised |-> Some(Raised("AttributeError", None, "attach_validation_report")),
          value |-> None]
    ELSE [raised |-> None,
          value |-> Some(attach_validation_report(df, run.report[1],
                                                  self.metadata_key, fresh))]

InitValidating ==
    /\ pc = "read"
    /\ ir = None
    /\ i = 0
    /\ transforms \in { ts \in SeqsUpTo(StageTypes, MaxTransforms) :
                          \E k \in 1..Len(ts) : ts[k] = "ValidatingTransform" }
    /\ input_path \in InputPaths
    /\ output_path \in OutputPaths
    /\ trace = << >>
    /\ delivered = None
    /\ nextId = 1
    /\ vt_pc = "idle"
    /\ fail_on_error \in BOOLEAN
    /\ metadata_key \in MetadataKeys
    /\ vt_df = [id |-> 0, isdf |-> TRUE, schema |-> {}, validation_metadata |-> None]
    /\ vt_runs = << >>
    /\ vt_reports = << >>
    /\ vt_out = None
    /\ vt_raised = None

\* Step 3, one iteration whose transform is a ValidatingTransform:
\* original_id = id(ir); ir = transform.transform(ir); the identity check.
ApplyValidatingTransform ==
    /\ pc = "transform"
    /\ i < Len(transforms)
    /\ transforms[i + 1] = "ValidatingTransform"
    /\ \E run \in RunOutcomes :
         LET type == transforms[i + 1]
             r == transform([fail_on_error |-> fail_on_error,
                             metadata_key |-> metadata_key], ir[1], run, nextId)
         IN  /\ vt_runs' = Append(vt_runs, ir[1])
             /\ vt_reports' = (IF run.report = None THEN vt_reports
                               ELSE Append(vt_reports, run.report[1]))
             /\ IF r.raised # None
                THEN /\ Fail(Entry("transform", Some(i), ir, None, None, r.raised,
                                   Some(TransformHandler(r.raised[1], i, type))))
                     /\ UNCHANGED << ir, i, nextId >>
                ELSE /\ ir' = r.value
                     /\ nextId' = nextId + 1
                     /\ IF SameInstance(ir[1], r.value[1])
                        THEN /\ Fail(Entry("transform", Some(i), ir, None, r.value, None,
                                           Some(TransformHandler(ImmutabilityError(i, type),
                                                                 i, type))))
                             /\ UNCHANGED i
                        ELSE /\ trace' = Append(trace, Entry("transform", Some(i), ir, None,
                                                             r.value, None, None))
                             /\ pc' = AfterTransform(i, Len(transforms)).pc
                             /\ i' = AfterTransform(i, Len(transforms)).i
                             /\ UNCHANGED delivered
    /\ UNCHANGED << transforms, input_path, output_path >>
    /\ UNCHANGED << vt_pc, fail_on_error, metadata_key, vt_df, vt_out, vt_raised >>
    /\ UNCHANGED << runVars, resultVars, parseVars, reportVars, checkVars, cliVars >>

NextValidating ==
    \/ Read
    \/ ValidateReaderOutput
    \/ ApplyTransform
    \/ ApplyValidatingTransform
    \/ ValidateFinalIr
    \/ Write

ValidatingInit == InitValidating /\ IdleRun /\ IdleResult /\ IdleRest

SpecValidating == ValidatingInit /\ [][NextValidating]_vars

(***************************************************************************)
(* Properties of execute_pipeline over ValidatingTransforms.               *)
(***************************************************************************)
\* The run stopped in a ValidatingTransform whose report counts a failure.
FailedOnReport ==
    /\ fail_on_error
    /\ vt_reports # << >>
    /\ ~is_valid(vt_reports[Len(vt_reports)])

\* C27: when a fail-on-error ValidatingTransform at index i gets an invalid
\* report, that step is the last step of the execution: no later transform
\* and no writer is called, and the caller receives a PipelineError with
\* step "transform_i" and transform_index i whose cause is the
\* ValidationError carrying the report; no ValidationError is delivered.
C27_InvalidReportStopsPipeline ==
    /\ fail_on_error
         => \A n \in 1..Len(vt_reports) : ~is_valid(vt_reports[n]) => n = Len(vt_reports)
    /\ FailedOnReport
         => LET rep == vt_reports[Len(vt_reports)]
                k == LastEntry.index[1]
            IN  /\ pc = "raised"
                /\ LastEntry.step = "transform"
                /\ k = i
                /\ transforms[k + 1] = "ValidatingTransform"
                /\ LastEntry.returned = None
                /\ \A j \in 1..Len(trace) :
                     /\ trace[j].step # "write"
                     /\ trace[j].step = "transform" => trace[j].index[1] <= k
                /\ delivered # None
                /\ delivered[1].cls = "PipelineError"
                /\ delivered[1].ctx.step = Some(StepTag(k))
                /\ delivered[1].ctx.transform_index = Some(k)
                /\ delivered[1].cause = AsCause(ValidationFailed(rep))
                /\ delivered[1].cause[1].cls = "ValidationError"
                /\ delivered[1].cause[1].ctx.validation_report = rep

\* A ValidatingTransform at index 1, after another transform, failed on its
\* report.
C27_Witness ==
    /\ FailedOnReport
    /\ pc = "raised"
    /\ i = 1
    /\ transforms[1] \in TransformTypes
    /\ delivered # None
    /\ delivered[1].cls = "PipelineError"

\* C28: the frame handed to the writer carries, under the metadata key, the
\* report of every ValidatingTransform that ran, in the order of the
\* transform list.
C28_WriterSeesEveryReport ==
    (pc = "returned" /\ LastEntry.step = "write")
      => get_validation_reports(LastEntry.arg[1], metadata_key)
           = [n \in 1..Len(vt_reports) |-> to_json(vt_reports[n])]
====
